---- MODULE Spec2Model ----
(***************************************************************************)
(* Battery Health Guardian: the Power Sampler (BatteryMonitor), the        *)
(* Escalation Controller (AlertManager) and the collaborators they drive   *)
(* (WarningDialog, the OS shutdown commands), as wired by BatteryTrayApp.  *)
(*                                                                         *)
(* Time is a global clock `now` in tenths of a second.  A time.sleep(d)    *)
(* lasts exactly d; every other statement takes no time, and a thread      *)
(* that can run does so before the clock advances.  Threads that are       *)
(* runnable at the same instant interleave in every order.  A block        *)
(* `with self._lock:` is one atomic step.                                  *)
(***************************************************************************)
EXTENDS Integers, Sequences, FiniteSets, TLC

\* ------------------------------------------------------------------ bounds
Slack == 2             \* seconds the clock runs on after the last sample it waits for
MaxThreads == 2        \* slots for escalation threads

\* ------------------------------------------------------- program constants
TickSleep == 10        \* time.sleep(1) of _escalation_loop
CleanupPause == 3      \* time.sleep(0.3) after dialog.close_all()
SliceSleep == 5        \* time.sleep(0.5) of the sampler / the countdown monitor
ToastMaxCount == 1     \* count <= 1 -> TOAST
PopupMaxCount == 5     \* count <= 5 -> POPUP

Threads == 1..MaxThreads

\* ------------------------------------------------------------ configuration
RefConfig ==
  [battery_threshold |-> 95, check_interval_seconds |-> 30,
   warning_interval_seconds |-> 30, max_warnings |-> 10,
   max_time_minutes |-> 5, shutdown_countdown_seconds |-> 60]

\* max-warnings and max-time become true in the same tick
BothConfig ==
  [battery_threshold |-> 95, check_interval_seconds |-> 30,
   warning_interval_seconds |-> 59, max_warnings |-> 1,
   max_time_minutes |-> 1, shutdown_countdown_seconds |-> 30]

\* max_warnings above 10, reached before max-time
ManyConfig ==
  [battery_threshold |-> 95, check_interval_seconds |-> 10,
   warning_interval_seconds |-> 10, max_warnings |-> 12,
   max_time_minutes |-> 3, shutdown_countdown_seconds |-> 30]

Configs == {RefConfig, BothConfig, ManyConfig}

\* ------------------------------------------------------------- power status
\* A BatteryStatus, or the None that get_battery_status returns (ok = FALSE).
NoStatus == [ok |-> FALSE, percent |-> 0, is_plugged |-> FALSE]

\* The power states the sampler meets: plugged just below, at and above the
\* threshold, and unplugged.
PowerStates(c) ==
  {[ok |-> TRUE, percent |-> p, is_plugged |-> TRUE] :
     p \in {c.battery_threshold - 1, c.battery_threshold, c.battery_threshold + 1}}
    \cup {[ok |-> TRUE, percent |-> c.battery_threshold + 1, is_plugged |-> FALSE]}

\* The seconds a sequence takes to its shutdown: max_time, or max_warnings
\* warnings, each a tick after its interval, whichever is less.
SequenceSeconds(c) ==
  LET by_time == c.max_time_minutes * 60
      by_count == c.max_warnings * (c.warning_interval_seconds + 1)
  IN IF by_time <= by_count THEN by_time ELSE by_count

\* The clock stops once a sequence that began at 0 is over, countdown
\* included, and the sampler has sampled once more.
Horizon(c) ==
  (SequenceSeconds(c) + c.shutdown_countdown_seconds + c.check_interval_seconds
     + Slack) * 10

IsUnplugged(s) == s.ok /\ ~s.is_plugged

\* --------------------------------------------------------------- AlertState
AlertState ==
  [warning_count |-> 0, elapsed_seconds |-> 0, is_active |-> FALSE,
   current_stage |-> "TOAST", shutdown_initiated |-> FALSE]

StartedState ==
  [warning_count |-> 0, elapsed_seconds |-> 0, is_active |-> TRUE,
   current_stage |-> "TOAST", shutdown_initiated |-> FALSE]

\* faulty variant: `<` for `<=` at the upper boundary of the POPUP stage
StageFor_EarlyModal(count) ==
  IF count <= ToastMaxCount THEN "TOAST"
  ELSE IF count < PopupMaxCount THEN "POPUP"
  ELSE "MODAL"

\* _show_next_warning: the stage for a warning count
StageFor(count) ==
  IF count <= ToastMaxCount THEN "TOAST"
  ELSE IF count <= PopupMaxCount THEN "POPUP"
  ELSE "MODAL"

\* _show_next_warning, the block under the lock
NextWarningState(st) ==
  [st EXCEPT !.warning_count = st.warning_count + 1,
             !.current_stage = StageFor(st.warning_count + 1)]

\* _initiate_shutdown, the block under the lock
InitiateState(st) ==
  [st EXCEPT !.shutdown_initiated = TRUE, !.current_stage = "SHUTDOWN"]

\* faulty variant: `>` for `>=` in the max-time comparison
ShouldShutdown_Strict(st, c) ==
  \/ st.warning_count >= c.max_warnings
  \/ st.elapsed_seconds > c.max_time_minutes * 60

\* _escalation_loop: should_shutdown
ShouldShutdown(st, c) ==
  \/ st.warning_count >= c.max_warnings
  \/ st.elapsed_seconds >= c.max_time_minutes * 60

\* faulty variant: neither the re-entry guard nor the return after the call
ShutdownBranch_FallThrough(st, c) ==
  [go |-> ShouldShutdown(st, c), cont |-> "loop"]

\* faulty variant: the return after the call is missing
ShutdownBranch_NoReturn(st, c) ==
  [go |-> ShouldShutdown(st, c) /\ ~st.shutdown_initiated, cont |-> "loop"]

\* _escalation_loop: `if should_shutdown and not shutdown_initiated:
\* self._initiate_shutdown(...); return`.  go: the call is made; cont: where
\* the thread continues once the call returns.
ShutdownBranch(st, c) ==
  [go |-> ShouldShutdown(st, c) /\ ~st.shutdown_initiated, cont |-> "exit"]

\* faulty variant: `>` for `>=` in the warning-interval comparison
WarningDue_Strict(since, c) == since > c.warning_interval_seconds * 10

\* _escalation_loop: the time for the next warning has come
WarningDue(since, c) == since >= c.warning_interval_seconds * 10

\* _escalation_loop / _monitor_during_shutdown: the charger was unplugged
SeesUnplugged(status) == status.ok /\ ~status.is_plugged

\* _monitor_during_shutdown: the while condition
CountdownRunning(since, c, run) ==
  since < c.shutdown_countdown_seconds * 10 /\ run

\* ---------------------------------------------------------------- presenter
\* WarningDialog: window is the stage of the open warning window ("none"
\* when there is none), shutdown_window the countdown window.
NoDialog == [window |-> "none", is_showing |-> FALSE, shutdown_window |-> FALSE]

\* _show_popup.create_window
ShowPopup(d, stage) ==
  IF d.is_showing THEN d
  ELSE [d EXCEPT !.window = stage, !.is_showing = TRUE]

\* show_warning: a toast leaves no window; a failed toast falls back to a popup
ShowWarning(d, stage, toast_ok) ==
  IF stage = "TOAST" THEN (IF toast_ok THEN d ELSE ShowPopup(d, "POPUP"))
  ELSE IF stage \in {"POPUP", "MODAL"} THEN ShowPopup(d, stage)
  ELSE d

\* close_all: _close_warning, then cancel_shutdown
CloseAll(d) == [window |-> "none", is_showing |-> FALSE, shutdown_window |-> FALSE]

\* show_shutdown_warning
ShowShutdownWarning(d) == [d EXCEPT !.shutdown_window = TRUE]

\* ------------------------------------------------------------------ sampler
\* faulty variant: `>` for `>=` in the threshold comparison
ThresholdFires_Strict(status, threshold) ==
  status.is_plugged /\ status.percent > threshold

\* _notify_callbacks: the threshold subscriber is called
ThresholdFires(status, threshold) ==
  status.is_plugged /\ status.percent >= threshold

\* handle_battery_status: "start", "stop" or "none"
HandleDecision(status, threshold, st) ==
  IF status.is_plugged /\ status.percent >= threshold
  THEN (IF ~st.is_active THEN "start" ELSE "none")
  ELSE (IF st.is_active THEN "stop" ELSE "none")

VARIABLES
  now,            \* the clock, in tenths of a second
  cfg,            \* ConfigManager._config
  reg_threshold,  \* the threshold BatteryTrayApp registered its subscriber with
  power,          \* what the next power query returns
  unplugged_at,   \* when the charger was unplugged during the sequence (-1: it was not)
  last_status,    \* BatteryMonitor._last_status
  last_sample_time, \* when _last_status was set
  mon_running,    \* BatteryMonitor._running
  sampler,        \* the _monitor_loop thread; saw_idle: the controller was idle when it sampled
  state,          \* AlertManager.state
  running,        \* AlertManager._running
  esc,            \* the _escalation_loop threads
  dialog,         \* the WarningDialog
  presented,      \* the last show_warning call
  os_shutdown,    \* a shutdown is scheduled: `shutdown /s` was run, and no `shutdown /a` since
  trig,           \* the Shutdown Trigger calls of the current sequence
  lock,           \* AlertManager._lock is held
  ui,             \* the tray thread: menu items run _check_now and stop
  noop,           \* a start or a stop has returned at its guard
  pres,           \* the WarningDialog with its window threads
  bus,            \* the BatteryMonitor's subscriber lists and the calls of the last sample
  life,           \* the callers of BatteryMonitor.start and stop, and the _monitor_loop threads
  cm,             \* the ConfigManager: the file, the listeners and the last notification
  probe           \* a configuration taken through save_config, load_config and validate_config

vars == <<now, cfg, reg_threshold, power, unplugged_at, last_status,
          last_sample_time, mon_running, sampler, state, running, esc, dialog, presented,
          os_shutdown, trig, lock, ui, noop, pres, bus, life, cm, probe>>

\* what only the tray thread and the split lock blocks write
\* the detailed Warning Presenter and the subscriber lists
aux == <<pres, bus, life, cm, probe>>

ext == <<lock, ui, noop, aux>>

\* ------------------------------------------------------------------ threads
\* An escalation thread: its position and the locals of _escalation_loop,
\* _stop_alert_sequence and _monitor_during_shutdown; stopped says that
\* another thread has stopped the sequence (force_stop, or
\* _stop_alert_sequence in the sampler thread) while the thread was alive.
FreeSlot ==
  [pc |-> "none", wake |-> 0, start_time |-> 0, last_warning_time |-> 0,
   was_shutdown |-> FALSE, mon_start |-> 0, cont |-> "exit", conf |-> RefConfig,
   count |-> 0, stopped |-> FALSE]

\* threading.Thread(target=self._escalation_loop).start(), and the thread's
\* first statements: the configuration and the two clocks it reads
NewThread(c, t0) ==
  [pc |-> "loop", wake |-> 0, start_time |-> t0, last_warning_time |-> t0,
   was_shutdown |-> FALSE, mon_start |-> 0, cont |-> "exit", conf |-> c,
   count |-> 0, stopped |-> FALSE]

\* a thread that has left _escalation_loop
Done == [FreeSlot EXCEPT !.pc = "done"]

\* _initiate_shutdown returns after a cancellation: the loop goes on or is left
ReturnCancelled(th) ==
  IF th.cont = "loop" THEN [th EXCEPT !.pc = "loop"] ELSE Done

\* _initiate_shutdown returns with the countdown elapsed
ReturnElapsed(th) ==
  IF th.cont = "loop" THEN [th EXCEPT !.pc = "loop"]
  ELSE [th EXCEPT !.pc = "terminal"]

\* the positions where a thread sleeps until its wake time
SleepPcs == {"sleep", "init_pause", "warn_pause", "mon_sleep"}

EscRunnable(t) ==
  \/ esc[t].pc \in SleepPcs /\ esc[t].wake <= now
  \/ esc[t].pc \notin SleepPcs \cup {"none", "done", "terminal"}

\* the _countdown_loop thread can take a step
CountdownRunnable ==
  \/ pres.cd.pc = "sleep" /\ pres.cd.wake <= now
  \/ pres.cd.pc \in {"while", "write", "after"}

SamplerRunnable ==
  \/ sampler.pc = "sleeping" /\ sampler.wake <= now
  \/ sampler.pc \notin {"sleeping", "exit", "waiting"}

\* the tray thread is inside a menu handler
UiRunnable == ui.pc \notin {"idle", "gone"}

AnyRunnable ==
  \/ SamplerRunnable
  \/ UiRunnable
  \/ CountdownRunnable
  \/ \E t \in Threads : EscRunnable(t)

WakeTimes ==
  {esc[t].wake : t \in {u \in Threads : esc[u].pc \in SleepPcs}}
    \cup (IF sampler.pc = "sleeping" THEN {sampler.wake} ELSE {})
    \cup (IF pres.cd.pc = "sleep" THEN {pres.cd.wake} ELSE {})

Min(S) == CHOOSE m \in S : \A n \in S : m <= n

FreeThreads == {t \in Threads : esc[t].pc \in {"none", "done"}}

NoTrig == [entries |-> 0, schedules |-> 0, delay |-> 0]

\* The controller's states: IDLE, otherwise ACTIVE or SHUTDOWN_PENDING, until
\* a thread has seen the countdown elapse (terminal).
Terminal == \E t \in Threads : esc[t].pc = "terminal"

NonIdle == state.is_active /\ ~Terminal

NoPresent == [stage |-> "none", count |-> 0]

\* _monitor_loop: the sleep between two samples, interval * 2 slices of
\* 0.5 s; a slice is only taken while the monitor runs
BeginSleep(sm, interval, run) ==
  IF run /\ interval > 0
  THEN [sm EXCEPT !.pc = "sleeping", !.wake = now + interval * 2 * SliceSleep]
  ELSE [sm EXCEPT !.pc = "poll"]

\* the tray thread with no menu item left to click
NoUi == [pc |-> "idle", checks |-> 0, stops |-> 0]

NoNoop == [start |-> FALSE, stop |-> FALSE]

\* the _countdown_loop thread is not started
NoCountdown == [pc |-> "none", wake |-> 0, read |-> 0]

\* WarningDialog.__init__: no window, nothing showing, no countdown and no
\* callbacks.  wins are the create_window threads in the order they were
\* started, sd is the create_shutdown_window thread, cd the _countdown_loop
\* thread; initial, any_ok and any_fail record how the calls went,
\* expiry_called and cancel_called that the callback of the countdown shown
\* last was invoked, cancelled that cancel_shutdown was called for it.
NoPres == [window |-> 0, is_showing |-> FALSE, wins |-> <<>>,
           shutdown_window |-> FALSE, sd |-> "none", sd_due |-> -1,
           sd_open |-> FALSE, initial |-> "none",
           any_ok |-> FALSE, any_fail |-> FALSE,
           shutdown_countdown |-> 0, on_shutdown |-> FALSE,
           on_cancel |-> FALSE, cd |-> NoCountdown,
           expiry_called |-> FALSE, cancel_called |-> FALSE,
           cancelled |-> FALSE]

\* the threads that call BatteryMonitor.start and stop
CallerIds == {1, 2}

\* the calls of start and stop the callers make after the first start
MaxCalls == 2

\* every call of start makes at most one _monitor_loop thread
LoopIds == 1..(MaxCalls + 1)

\* a caller outside start and stop
NoCaller == [pc |-> "idle", target |-> 0, until |-> 0]

\* a _monitor_loop thread that does not exist
NoLoop == [pc |-> "none", left |-> 0, wake |-> 0]

\* BatteryMonitor.__init__: _thread is None.  calls are the calls left,
\* false_since is when _running became False, raised says that a join has
\* raised.
NoLife == [callers |-> [c \in CallerIds |-> NoCaller],
           loops |-> [i \in LoopIds |-> NoLoop],
           thread |-> 0, calls |-> 0, false_since |-> -1, raised |-> FALSE]

\* BatteryMonitor.__init__: no subscriber.  log holds the calls made for the
\* last query, polls and skipped count the queries and the failed ones,
\* last_good is the last status a query returned, after_raise says that a
\* query was made after a sample during which a subscriber raised, ret holds
\* the values get_battery_status has returned when psutil reported no battery
\* and when the query raised.
NoBus == [callbacks |-> <<>>, threshold_callbacks |-> <<>>, log |-> <<>>,
          polls |-> 0, skipped |-> 0, last_good |-> NoStatus,
          after_raise |-> FALSE,
          ret |-> [no_battery |-> {}, error |-> {}]]

\* ------------------------------------------------------------ configuration
\* DEFAULT_CONFIG; a bool is the int it equals in Python (True == 1)
DefaultConfig ==
  [battery_threshold |-> 95, check_interval_seconds |-> 30,
   warning_interval_seconds |-> 30, max_warnings |-> 10,
   max_time_minutes |-> 5, shutdown_countdown_seconds |-> 60,
   auto_start_with_windows |-> 1, enable_sounds |-> 1,
   low_battery_alert |-> 0, low_battery_threshold |-> 20]

\* the keys validate_config assigns
ValidatedKeys ==
  {"battery_threshold", "check_interval_seconds", "warning_interval_seconds",
   "max_warnings", "max_time_minutes", "shutdown_countdown_seconds"}

\* the other keys of DEFAULT_CONFIG
PlainKeys == DOMAIN DefaultConfig \ ValidatedKeys

\* the order in which json.dump writes the keys of a dict
KeyOrder ==
  <<"battery_threshold", "check_interval_seconds", "warning_interval_seconds",
    "max_warnings", "max_time_minutes", "shutdown_countdown_seconds",
    "auto_start_with_windows", "enable_sounds", "low_battery_alert",
    "low_battery_threshold">>

PyMax(a, b) == IF a >= b THEN a ELSE b

PyMin(a, b) == IF a <= b THEN a ELSE b

\* dict.get(key, default)
Get(config, key, default) == IF key \in DOMAIN config THEN config[key] ELSE default

\* dict.update: base with the items of updates put over it
Merge(base, updates) ==
  [k \in DOMAIN base \cup DOMAIN updates |->
     IF k \in DOMAIN updates THEN updates[k] ELSE base[k]]

\* faulty variant: a threshold above 100 is wrapped, not clamped
ValidateConfig_Wrap(config) ==
  [k \in DOMAIN config \cup ValidatedKeys |->
     CASE k = "battery_threshold" ->
            LET v == Get(config, k, 95)
            IN IF v > 100 THEN v - 50 ELSE PyMax(50, v)
       [] k = "check_interval_seconds" -> PyMax(5, Get(config, k, 30))
       [] k = "warning_interval_seconds" -> PyMax(10, Get(config, k, 30))
       [] k = "max_warnings" -> PyMax(1, PyMin(50, Get(config, k, 10)))
       [] k = "max_time_minutes" -> PyMax(1, PyMin(60, Get(config, k, 5)))
       [] k = "shutdown_countdown_seconds" ->
            PyMax(30, PyMin(300, Get(config, k, 60)))
       [] OTHER -> config[k]]

\* validate_config: a copy of config with the six validated keys clamped,
\* each taken from its default when config has no such key
ValidateConfig(config) ==
  [k \in DOMAIN config \cup ValidatedKeys |->
     CASE k = "battery_threshold" -> PyMax(50, PyMin(100, Get(config, k, 95)))
       [] k = "check_interval_seconds" -> PyMax(5, Get(config, k, 30))
       [] k = "warning_interval_seconds" -> PyMax(10, Get(config, k, 30))
       [] k = "max_warnings" -> PyMax(1, PyMin(50, Get(config, k, 10)))
       [] k = "max_time_minutes" -> PyMax(1, PyMin(60, Get(config, k, 5)))
       [] k = "shutdown_countdown_seconds" ->
            PyMax(30, PyMin(300, Get(config, k, 60)))
       [] OTHER -> config[k]]

\* no file at get_config_path(); kind is "none", "json" or "unreadable",
\* text is the content as json.dump wrote it: the items one after another
NoFile == [kind |-> "none", text |-> <<>>]

UnreadableFile == [kind |-> "unreadable", text |-> <<>>]

\* the outcomes of writing the file: written, open refused, write broken off
IoOutcomes == {"ok", "denied", "partial"}

\* json.dump(config, f)
JsonDump(config) ==
  LET keys == SelectSeq(KeyOrder, LAMBDA k : k \in DOMAIN config)
  IN [i \in 1..Len(keys) |-> <<keys[i], config[keys[i]]>>]

\* json.load(f): of two items with one key the later one stays
JsonLoad(text) ==
  [k \in {text[i][1] : i \in 1..Len(text)} |->
     text[CHOOSE i \in 1..Len(text) :
            /\ text[i][1] = k
            /\ \A j \in (i + 1)..Len(text) : text[j][1] # k][2]]

\* save_config: the file afterwards
SaveConfig(file, config, io) ==
  CASE io = "ok" -> [kind |-> "json", text |-> JsonDump(config)]
    [] io = "denied" -> file
    [] OTHER -> UnreadableFile

\* save_config: its return value
SaveOk(io) == io = "ok"

\* faulty variant: the file's content is returned without the defaults
LoadConfig_NoMerge(file) ==
  IF file.kind = "json" THEN JsonLoad(file.text) ELSE DefaultConfig

\* load_config: the defaults with the file's content over them, the defaults
\* alone when there is no file or it cannot be read
LoadConfig(file) ==
  IF file.kind = "json" THEN Merge(DefaultConfig, JsonLoad(file.text))
  ELSE DefaultConfig

\* load_config: the file afterwards; a default file is written when none exists
FileAfterLoad(file, io) ==
  IF file.kind = "none" THEN SaveConfig(file, DefaultConfig, io) ELSE file

\* ConfigManager.__new__: no listener.  log holds the calls of the last
\* notification, before is the configuration held when the last changing
\* call began, op is that call, saved is what its save_config returned,
\* changes counts the changing calls and changed_at is when the last one
\* was made.
NoCm == [file |-> NoFile, listeners |-> <<>>, log |-> <<>>,
         before |-> <<>>, op |-> "none", saved |-> FALSE,
         changes |-> 0, changed_at |-> -1]

\* no configuration is being taken through the functions
NoProbe == [pc |-> "none", input |-> <<>>, file |-> NoFile,
            out |-> <<>>, again |-> <<>>, back |-> <<>>]

\* The program after BatteryTrayApp.__init__ and start: the configuration is
\* one of configs, the tray thread is u.  The threshold subscriber is
\* registered with the threshold, and the monitor is built with the check
\* interval, that the configuration has at this moment.
InitCore(configs, u) ==
  /\ now = 0
  /\ cfg \in configs
  /\ reg_threshold = cfg.battery_threshold
  /\ power \in PowerStates(cfg)
  /\ unplugged_at = -1
  /\ last_status = NoStatus
  /\ last_sample_time = 0
  /\ mon_running = TRUE
  /\ sampler = [pc |-> "poll", wake |-> 0, status |-> NoStatus, saw_idle |-> FALSE,
                check_interval |-> cfg.check_interval_seconds,
                was_shutdown |-> FALSE]
  /\ state = AlertState
  /\ running = FALSE
  /\ esc = [t \in Threads |-> FreeSlot]
  /\ dialog = NoDialog
  /\ presented = NoPresent
  /\ os_shutdown = FALSE
  /\ trig = NoTrig
  /\ lock = FALSE
  /\ ui = u
  /\ noop = NoNoop
  /\ pres = NoPres
  /\ bus = NoBus

InitWith(configs, u) ==
  /\ InitCore(configs, u)
  /\ life = NoLife
  /\ cm = NoCm
  /\ probe = NoProbe

Init == InitWith(Configs, NoUi)

\* ------------------------------------------------------------- environment
\* The charger or the charge level changes.  The program sees the power state only when it samples,
\* so a change between two samples is placed right after the earlier one:
\* that is the earliest it can have happened.
PowerChangeTo(p) ==
  /\ UNCHANGED ext
  /\ ~AnyRunnable
  /\ sampler.pc = "sleeping"
  /\ sampler.wake = now + sampler.check_interval * 2 * SliceSleep
  /\ power' = p
  /\ unplugged_at' = IF IsUnplugged(p) /\ NonIdle THEN now ELSE -1
  /\ UNCHANGED <<mon_running, now, cfg, reg_threshold, last_status, last_sample_time,
                 sampler, state, running, esc, dialog, presented,
                 os_shutdown, trig>>

PowerChange == \E p \in PowerStates(cfg) \ {power} : PowerChangeTo(p)

\* The charger is pulled.
Unplug ==
  /\ power.is_plugged
  /\ PowerChangeTo([power EXCEPT !.is_plugged = FALSE])

\* Time passes to the next wake-up when no thread can run.
Tick ==
  /\ UNCHANGED ext
  /\ ~AnyRunnable
  /\ WakeTimes # {}
  /\ Min(WakeTimes) <= Horizon(cfg)
  /\ now' = Min(WakeTimes)
  /\ UNCHANGED <<mon_running, cfg, reg_threshold, power, unplugged_at, last_status,
                 last_sample_time, sampler, state, running, esc, dialog,
                 presented, os_shutdown, trig>>

\* ------------------------------------------------------- the sampler thread
\* _monitor_loop: get_battery_status, and _last_status when it succeeded
SamplerPoll ==
  /\ UNCHANGED ext
  /\ sampler.pc = "poll"
  /\ IF ~mon_running
     THEN /\ sampler' = [sampler EXCEPT !.pc = "exit"]
          /\ UNCHANGED <<mon_running, last_status, last_sample_time>>
     ELSE IF power.ok
     THEN /\ last_status' = power
          /\ last_sample_time' = now
          /\ sampler' = [sampler EXCEPT !.pc = "notify", !.status = power,
                                        !.saw_idle = ~state.is_active]
     ELSE /\ sampler' = BeginSleep([sampler EXCEPT !.status = NoStatus],
                                   sampler.check_interval, mon_running)
          /\ UNCHANGED <<mon_running, last_status, last_sample_time>>
  /\ UNCHANGED <<mon_running, now, cfg, reg_threshold, power, unplugged_at, state, running,
                 esc, dialog, presented, os_shutdown, trig>>

\* _notify_callbacks: _on_battery_status redraws the icon; the threshold
\* subscriber _on_threshold_reached calls handle_battery_status
SamplerNotify ==
  /\ UNCHANGED ext
  /\ sampler.pc = "notify"
  /\ LET d == IF ThresholdFires(sampler.status, reg_threshold)
              THEN HandleDecision(sampler.status, cfg.battery_threshold, state)
              ELSE "none"
     IN sampler' = IF d = "start" THEN [sampler EXCEPT !.pc = "start_lock"]
                   ELSE IF d = "stop" THEN [sampler EXCEPT !.pc = "stop_lock"]
                   ELSE BeginSleep(sampler, sampler.check_interval, mon_running)
  /\ UNCHANGED <<mon_running, now, cfg, reg_threshold, power, unplugged_at, last_status,
                 last_sample_time, state, running, esc, dialog, presented,
                 os_shutdown, trig>>

\* _start_alert_sequence: the block under the lock
SamplerStartLock ==
  /\ UNCHANGED ext
  /\ sampler.pc = "start_lock"
  /\ IF state.is_active
     THEN /\ sampler' = BeginSleep(sampler, sampler.check_interval, mon_running)
          /\ UNCHANGED <<mon_running, state, running, trig>>
     ELSE /\ state' = StartedState
          /\ running' = TRUE
          /\ trig' = NoTrig
          /\ sampler' = [sampler EXCEPT !.pc = "start_show"]
  /\ UNCHANGED <<mon_running, now, cfg, reg_threshold, power, unplugged_at, last_status,
                 last_sample_time, esc, dialog, presented, os_shutdown>>

\* _start_alert_sequence: the initial toast
SamplerStartShow ==
  /\ UNCHANGED ext
  /\ sampler.pc = "start_show"
  /\ \E toast_ok \in BOOLEAN : dialog' = ShowWarning(dialog, "TOAST", toast_ok)
  /\ presented' = [stage |-> "TOAST", count |-> 1]
  /\ sampler' = [sampler EXCEPT !.pc = "start_thread"]
  /\ UNCHANGED <<mon_running, now, cfg, reg_threshold, power, unplugged_at, last_status,
                 last_sample_time, state, running, esc, os_shutdown, trig>>

\* _start_alert_sequence: the escalation thread is started
SamplerStartThread ==
  /\ UNCHANGED ext
  /\ sampler.pc = "start_thread"
  /\ FreeThreads # {}
  /\ esc' = [esc EXCEPT ![Min(FreeThreads)] = NewThread(cfg, now)]
  /\ sampler' = BeginSleep(sampler, sampler.check_interval, mon_running)
  /\ UNCHANGED <<mon_running, now, cfg, reg_threshold, power, unplugged_at, last_status,
                 last_sample_time, state, running, dialog, presented,
                 os_shutdown, trig>>

\* _monitor_loop: the last slice of the sleep has passed
SamplerSlice ==
  /\ UNCHANGED ext
  /\ sampler.pc = "sleeping"
  /\ sampler.wake <= now
  /\ sampler' = [sampler EXCEPT !.pc = "poll"]
  /\ UNCHANGED <<mon_running, now, cfg, reg_threshold, power, unplugged_at, last_status,
                 last_sample_time, state, running, esc, dialog, presented,
                 os_shutdown, trig>>

\* --------------------------------------------------- the escalation threads
EscUnchanged ==
  UNCHANGED <<now, cfg, reg_threshold, power, last_status,
              last_sample_time, mon_running, sampler, ext>>

\* _escalation_loop: `while self._running:` and time.sleep(1)
EscLoop(t) ==
  /\ esc[t].pc = "loop"
  /\ esc' = [esc EXCEPT ![t] =
       IF running THEN [@ EXCEPT !.pc = "sleep", !.wake = now + TickSleep]
       ELSE Done]
  /\ EscUnchanged
  /\ UNCHANGED <<unplugged_at, state, running, dialog, presented, os_shutdown, trig>>

\* _escalation_loop: the sleep is over; elapsed_seconds under the lock
EscElapsed(t) ==
  /\ esc[t].pc = "sleep"
  /\ esc[t].wake <= now
  /\ ~lock
  /\ state' = [state EXCEPT !.elapsed_seconds = (now - esc[t].start_time) \div 10]
  /\ esc' = [esc EXCEPT ![t].pc = "unplug_check"]
  /\ EscUnchanged
  /\ UNCHANGED <<unplugged_at, running, dialog, presented, os_shutdown, trig>>

\* _escalation_loop: `if current_status and not current_status.is_plugged`
EscUnplugCheck(t) ==
  /\ esc[t].pc = "unplug_check"
  /\ esc' = [esc EXCEPT ![t] =
       IF SeesUnplugged(last_status)
       THEN [@ EXCEPT !.pc = "stop_lock", !.cont = "exit"]
       ELSE [@ EXCEPT !.pc = "shutdown_check"]]
  /\ EscUnchanged
  /\ UNCHANGED <<unplugged_at, state, running, dialog, presented, os_shutdown, trig>>

\* faulty variant: was_shutdown is read after the state is reset
EscStopLock_LateCapture(t) ==
  /\ esc[t].pc = "stop_lock"
  /\ IF ~state.is_active
     THEN /\ esc' = [esc EXCEPT ![t] = ReturnCancelled(@)]
          /\ UNCHANGED <<state, running, unplugged_at>>
     ELSE /\ esc' = [esc EXCEPT ![t].was_shutdown = AlertState.shutdown_initiated,
                                ![t].pc = "stop_close"]
          /\ running' = FALSE
          /\ state' = AlertState
          /\ unplugged_at' = -1
  /\ EscUnchanged
  /\ UNCHANGED <<dialog, presented, os_shutdown, trig>>

\* _stop_alert_sequence: the block under the lock
EscStopLock(t) ==
  /\ esc[t].pc = "stop_lock"
  /\ IF ~state.is_active
     THEN /\ esc' = [esc EXCEPT ![t] = ReturnCancelled(@)]
          /\ UNCHANGED <<state, running, unplugged_at>>
     ELSE /\ esc' = [esc EXCEPT ![t].was_shutdown = state.shutdown_initiated,
                                ![t].pc = "stop_close"]
          /\ running' = FALSE
          /\ state' = AlertState
          /\ unplugged_at' = -1
  /\ EscUnchanged
  /\ UNCHANGED <<dialog, presented, os_shutdown, trig>>

\* _stop_alert_sequence: self.dialog.close_all()
EscStopClose(t) ==
  /\ esc[t].pc = "stop_close"
  /\ dialog' = CloseAll(dialog)
  /\ presented' = NoPresent
  /\ esc' = [esc EXCEPT ![t].pc = "stop_cancel"]
  /\ EscUnchanged
  /\ UNCHANGED <<unplugged_at, state, running, os_shutdown, trig>>

\* _stop_alert_sequence: `if was_shutdown: cancel_system_shutdown()`
EscStopCancel(t) ==
  /\ esc[t].pc = "stop_cancel"
  /\ IF esc[t].was_shutdown
     THEN os_shutdown' = FALSE
     ELSE UNCHANGED os_shutdown
  /\ esc' = [esc EXCEPT ![t] = ReturnCancelled(@)]
  /\ EscUnchanged
  /\ UNCHANGED <<unplugged_at, state, running, dialog, presented, trig>>

\* _escalation_loop: the shutdown conditions
EscShutdownCheck(t) ==
  /\ esc[t].pc = "shutdown_check"
  /\ LET b == ShutdownBranch(state, esc[t].conf)
     IN esc' = [esc EXCEPT ![t] =
          IF b.go THEN [@ EXCEPT !.pc = "init_lock", !.cont = b.cont]
          ELSE [@ EXCEPT !.pc = "warn_check"]]
  /\ EscUnchanged
  /\ UNCHANGED <<unplugged_at, state, running, dialog, presented, os_shutdown, trig>>

\* _initiate_shutdown: the block under the lock
EscInitLock(t) ==
  /\ esc[t].pc = "init_lock"
  /\ state' = InitiateState(state)
  /\ trig' = [trig EXCEPT !.entries = @ + 1]
  /\ esc' = [esc EXCEPT ![t].pc = "init_close"]
  /\ EscUnchanged
  /\ UNCHANGED <<unplugged_at, running, dialog, presented, os_shutdown>>

\* _initiate_shutdown: close_all and time.sleep(0.3)
EscInitClose(t) ==
  /\ esc[t].pc = "init_close"
  /\ dialog' = CloseAll(dialog)
  /\ presented' = NoPresent
  /\ esc' = [esc EXCEPT ![t].pc = "init_pause", ![t].wake = now + CleanupPause]
  /\ EscUnchanged
  /\ UNCHANGED <<unplugged_at, state, running, os_shutdown, trig>>

\* _initiate_shutdown: show_shutdown_warning
EscInitShow(t) ==
  /\ esc[t].pc = "init_pause"
  /\ esc[t].wake <= now
  /\ dialog' = ShowShutdownWarning(dialog)
  /\ esc' = [esc EXCEPT ![t].pc = "init_trigger"]
  /\ EscUnchanged
  /\ UNCHANGED <<unplugged_at, state, running, presented, os_shutdown, trig>>

\* _initiate_shutdown: trigger_system_shutdown, then
\* _monitor_during_shutdown starts its clock and its first sleep
EscInitTrigger(t) ==
  /\ esc[t].pc = "init_trigger"
  /\ os_shutdown' = TRUE
  /\ trig' = [trig EXCEPT !.schedules = @ + 1,
                          !.delay = esc[t].conf.shutdown_countdown_seconds]
  /\ esc' = [esc EXCEPT ![t] =
       IF CountdownRunning(0, @.conf, running)
       THEN [@ EXCEPT !.pc = "mon_sleep", !.mon_start = now,
                      !.wake = now + SliceSleep]
       ELSE ReturnElapsed([@ EXCEPT !.mon_start = now])]
  /\ EscUnchanged
  /\ UNCHANGED unplugged_at
  /\ UNCHANGED <<state, running, dialog, presented>>

\* faulty variant: the countdown is slept through without a look at the status
EscMonitor_NoStatus(t) ==
  /\ esc[t].pc = "mon_sleep"
  /\ esc[t].wake <= now
  /\ esc' = [esc EXCEPT ![t] =
       IF CountdownRunning(now - @.mon_start, @.conf, running)
       THEN [@ EXCEPT !.wake = now + SliceSleep]
       ELSE ReturnElapsed(@)]
  /\ EscUnchanged
  /\ UNCHANGED <<unplugged_at, state, running, dialog, presented, os_shutdown, trig>>

\* _monitor_during_shutdown: after a sleep of 0.5 s, the status, then the
\* while condition
EscMonitor(t) ==
  /\ esc[t].pc = "mon_sleep"
  /\ esc[t].wake <= now
  /\ esc' = [esc EXCEPT ![t] =
       IF SeesUnplugged(last_status) THEN [@ EXCEPT !.pc = "stop_lock"]
       ELSE IF CountdownRunning(now - @.mon_start, @.conf, running)
       THEN [@ EXCEPT !.wake = now + SliceSleep]
       ELSE ReturnElapsed(@)]
  /\ EscUnchanged
  /\ UNCHANGED unplugged_at
  /\ UNCHANGED <<state, running, dialog, presented, os_shutdown, trig>>

\* _escalation_loop: `if time_since_last >= warning_interval`
EscWarnCheck(t) ==
  /\ esc[t].pc = "warn_check"
  /\ esc' = [esc EXCEPT ![t] =
       IF WarningDue(now - @.last_warning_time, @.conf)
       THEN [@ EXCEPT !.pc = "warn_inc", !.last_warning_time = now]
       ELSE [@ EXCEPT !.pc = "loop"]]
  /\ EscUnchanged
  /\ UNCHANGED <<unplugged_at, state, running, dialog, presented, os_shutdown, trig>>

\* _show_next_warning: the block under the lock
EscWarnInc(t) ==
  /\ esc[t].pc = "warn_inc"
  /\ state' = NextWarningState(state)
  /\ esc' = [esc EXCEPT ![t].pc = "warn_close",
                        ![t].count = state.warning_count + 1]
  /\ EscUnchanged
  /\ UNCHANGED <<unplugged_at, running, dialog, presented, os_shutdown, trig>>

\* _show_next_warning: close_all and time.sleep(0.3)
EscWarnClose(t) ==
  /\ esc[t].pc = "warn_close"
  /\ dialog' = CloseAll(dialog)
  /\ presented' = NoPresent
  /\ esc' = [esc EXCEPT ![t].pc = "warn_pause", ![t].wake = now + CleanupPause]
  /\ EscUnchanged
  /\ UNCHANGED <<unplugged_at, state, running, os_shutdown, trig>>

\* _show_next_warning: show_warning with the stage the state holds now
EscWarnShow(t) ==
  /\ esc[t].pc = "warn_pause"
  /\ esc[t].wake <= now
  /\ \E toast_ok \in BOOLEAN :
       dialog' = ShowWarning(dialog, state.current_stage, toast_ok)
  /\ presented' = [stage |-> state.current_stage, count |-> esc[t].count]
  /\ esc' = [esc EXCEPT ![t].pc = "loop"]
  /\ EscUnchanged
  /\ UNCHANGED <<unplugged_at, state, running, os_shutdown, trig>>

Next ==
  \/ PowerChange
  \/ Tick
  \/ SamplerPoll
  \/ SamplerNotify
  \/ SamplerStartLock
  \/ SamplerStartShow
  \/ SamplerStartThread
  \/ SamplerSlice
  \/ \E t \in Threads : EscLoop(t)
  \/ \E t \in Threads : EscElapsed(t)
  \/ \E t \in Threads : EscUnplugCheck(t)
  \/ \E t \in Threads : EscStopLock(t)
  \/ \E t \in Threads : EscStopClose(t)
  \/ \E t \in Threads : EscStopCancel(t)
  \/ \E t \in Threads : EscShutdownCheck(t)
  \/ \E t \in Threads : EscInitLock(t)
  \/ \E t \in Threads : EscInitClose(t)
  \/ \E t \in Threads : EscInitShow(t)
  \/ \E t \in Threads : EscInitTrigger(t)
  \/ \E t \in Threads : EscMonitor(t)
  \/ \E t \in Threads : EscWarnCheck(t)
  \/ \E t \in Threads : EscWarnInc(t)
  \/ \E t \in Threads : EscWarnClose(t)
  \/ \E t \in Threads : EscWarnShow(t)

Spec == Init /\ [][Next]_vars

\* =========================================================== SpecRace
\* The same program with the tray thread: its menu runs _check_now and stop
\* (force_stop, then BatteryMonitor.stop), which take no lock.  The blocks
\* under AlertManager._lock that write two fields are two steps here, with
\* the lock held in between, so that the unlocked accesses interleave with
\* them.
MaxChecks == 1         \* clicks on "Check Now"

\* two warnings, then the shutdown: the smallest values validate_config lets
\* through, with max_warnings = 2
RaceConfig ==
  [battery_threshold |-> 95, check_interval_seconds |-> 5,
   warning_interval_seconds |-> 10, max_warnings |-> 2,
   max_time_minutes |-> 1, shutdown_countdown_seconds |-> 30]

\* the device is plugged in above the threshold
RaceInit ==
  /\ InitWith({RaceConfig}, [pc |-> "idle", checks |-> MaxChecks, stops |-> 1])
  /\ power.is_plugged /\ power.percent > cfg.battery_threshold

\* the threads that call handle_battery_status
Callers == {"sampler", "ui"}

CallerPc(w) == IF w = "sampler" THEN sampler.pc ELSE ui.pc

\* the caller goes on inside _start_alert_sequence
CallerGoes(w, p) ==
  IF w = "sampler"
  THEN sampler' = [sampler EXCEPT !.pc = p] /\ UNCHANGED ui
  ELSE ui' = [ui EXCEPT !.pc = p] /\ UNCHANGED sampler

\* the caller returns from handle_battery_status
CallerReturns(w) ==
  IF w = "sampler"
  THEN /\ sampler' = BeginSleep(sampler, sampler.check_interval, mon_running)
       /\ UNCHANGED ui
  ELSE ui' = [ui EXCEPT !.pc = "idle"] /\ UNCHANGED sampler

\* faulty variant: the guard `if self.state.is_active: return` is missing
StartLockState_NoGuard(w) ==
  /\ CallerPc(w) = "start_lock"
  /\ ~lock
  /\ state' = StartedState
  /\ lock' = TRUE
  /\ CallerGoes(w, "start_run")
  /\ UNCHANGED noop
  /\ UNCHANGED aux
  /\ UNCHANGED <<now, cfg, reg_threshold, power, unplugged_at, last_status,
                 last_sample_time, mon_running, running, esc, dialog, presented,
                 os_shutdown, trig>>

\* _start_alert_sequence: the lock, the guard, the new AlertState
StartLockState(w) ==
  /\ CallerPc(w) = "start_lock"
  /\ ~lock
  /\ IF state.is_active
     THEN /\ CallerReturns(w)
          /\ noop' = [noop EXCEPT !.start = TRUE]
          /\ UNCHANGED <<state, lock>>
     ELSE /\ state' = StartedState
          /\ lock' = TRUE
          /\ CallerGoes(w, "start_run")
          /\ UNCHANGED noop
  /\ UNCHANGED aux
  /\ UNCHANGED <<now, cfg, reg_threshold, power, unplugged_at, last_status,
                 last_sample_time, mon_running, running, esc, dialog, presented,
                 os_shutdown, trig>>

\* _start_alert_sequence: self._running = True, and the lock is released
StartLockRunning(w) ==
  /\ CallerPc(w) = "start_run"
  /\ running' = TRUE
  /\ trig' = NoTrig
  /\ lock' = FALSE
  /\ CallerGoes(w, "start_show")
  /\ UNCHANGED aux
  /\ UNCHANGED <<now, cfg, reg_threshold, power, unplugged_at, last_status,
                 last_sample_time, mon_running, state, esc, dialog, presented,
                 os_shutdown, noop>>

\* _start_alert_sequence in the tray thread: the initial toast
UiStartShow ==
  /\ ui.pc = "start_show"
  /\ \E toast_ok \in BOOLEAN : dialog' = ShowWarning(dialog, "TOAST", toast_ok)
  /\ presented' = [stage |-> "TOAST", count |-> 1]
  /\ ui' = [ui EXCEPT !.pc = "start_thread"]
  /\ UNCHANGED aux
  /\ UNCHANGED <<now, cfg, reg_threshold, power, unplugged_at, last_status,
                 last_sample_time, mon_running, sampler, state, running, esc,
                 os_shutdown, trig, lock, noop>>

\* _start_alert_sequence in the tray thread: the escalation thread is started
UiStartThread ==
  /\ ui.pc = "start_thread"
  /\ FreeThreads # {}
  /\ esc' = [esc EXCEPT ![Min(FreeThreads)] = NewThread(cfg, now)]
  /\ ui' = [ui EXCEPT !.pc = "idle"]
  /\ UNCHANGED aux
  /\ UNCHANGED <<now, cfg, reg_threshold, power, unplugged_at, last_status,
                 last_sample_time, mon_running, sampler, state, running, dialog,
                 presented, os_shutdown, trig, lock, noop>>

\* _check_now: a power query of its own (it does not set _last_status), the
\* icon, and the threshold handler when the sample is at or above the
\* configured threshold
UiCheckNow ==
  /\ ui.pc = "idle"
  /\ ui.checks > 0
  /\ LET fires == /\ power.ok /\ power.is_plugged
                  /\ power.percent >= cfg.battery_threshold
         d == IF fires THEN HandleDecision(power, cfg.battery_threshold, state)
              ELSE "none"
     IN ui' = [ui EXCEPT !.checks = @ - 1,
                         !.pc = IF d = "start" THEN "start_lock" ELSE "idle"]
  /\ UNCHANGED aux
  /\ UNCHANGED <<now, cfg, reg_threshold, power, unplugged_at, last_status,
                 last_sample_time, mon_running, sampler, state, running, esc,
                 dialog, presented, os_shutdown, trig, lock, noop>>

\* BatteryTrayApp.stop calls force_stop: self._running = False
UiStop ==
  /\ ui.pc = "idle"
  /\ ui.stops > 0
  /\ running' = FALSE
  /\ esc' = [t \in Threads |->
               IF esc[t].pc \in {"none", "done"} THEN esc[t]
               ELSE [esc[t] EXCEPT !.stopped = TRUE]]
  /\ ui' = [ui EXCEPT !.stops = @ - 1, !.pc = "force_close"]
  /\ UNCHANGED aux
  /\ UNCHANGED <<now, cfg, reg_threshold, power, unplugged_at, last_status,
                 last_sample_time, mon_running, sampler, state, dialog,
                 presented, os_shutdown, trig, lock, noop>>

\* force_stop: self.dialog.close_all()
UiForceClose ==
  /\ ui.pc = "force_close"
  /\ dialog' = CloseAll(dialog)
  /\ presented' = NoPresent
  /\ ui' = [ui EXCEPT !.pc = "force_cancel"]
  /\ UNCHANGED aux
  /\ UNCHANGED <<now, cfg, reg_threshold, power, unplugged_at, last_status,
                 last_sample_time, mon_running, sampler, state, running, esc,
                 os_shutdown, trig, lock, noop>>

\* force_stop: cancel_system_shutdown()
UiForceCancel ==
  /\ ui.pc = "force_cancel"
  /\ os_shutdown' = FALSE
  /\ ui' = [ui EXCEPT !.pc = "force_reset"]
  /\ UNCHANGED aux
  /\ UNCHANGED <<now, cfg, reg_threshold, power, unplugged_at, last_status,
                 last_sample_time, mon_running, sampler, state, running, esc,
                 dialog, presented, trig, lock, noop>>

\* force_stop: self.state = AlertState()
UiForceReset ==
  /\ ui.pc = "force_reset"
  /\ state' = AlertState
  /\ unplugged_at' = -1
  /\ ui' = [ui EXCEPT !.pc = "monitor_stop"]
  /\ UNCHANGED aux
  /\ UNCHANGED <<now, cfg, reg_threshold, power, last_status,
                 last_sample_time, mon_running, sampler, running, esc,
                 dialog, presented, os_shutdown, trig, lock, noop>>

\* BatteryTrayApp.stop: battery_monitor.stop()
UiMonitorStop ==
  /\ ui.pc = "monitor_stop"
  /\ mon_running' = FALSE
  /\ ui' = [ui EXCEPT !.pc = "gone"]
  /\ UNCHANGED aux
  /\ UNCHANGED <<now, cfg, reg_threshold, power, unplugged_at, last_status,
                 last_sample_time, sampler, state, running, esc,
                 dialog, presented, os_shutdown, trig, lock, noop>>

\* what a step of an escalation thread inside a lock block leaves alone
EscLockUnchanged ==
  UNCHANGED <<now, cfg, reg_threshold, power, last_status, last_sample_time,
              mon_running, sampler, ui, dialog, presented, os_shutdown, aux>>

\* _stop_alert_sequence: the lock, the guard, was_shutdown and
\* self._running = False
StopLockRunning(t) ==
  /\ esc[t].pc = "stop_lock"
  /\ ~lock
  /\ IF ~state.is_active
     THEN /\ esc' = [esc EXCEPT ![t] = ReturnCancelled(@)]
          /\ noop' = [noop EXCEPT !.stop = TRUE]
          /\ UNCHANGED <<running, lock>>
     ELSE /\ esc' = [esc EXCEPT ![t].was_shutdown = state.shutdown_initiated,
                                ![t].pc = "stop_reset"]
          /\ running' = FALSE
          /\ lock' = TRUE
          /\ UNCHANGED noop
  /\ EscLockUnchanged
  /\ UNCHANGED <<state, unplugged_at, trig>>

\* _stop_alert_sequence: self.state = AlertState(), and the lock is released
StopLockState(t) ==
  /\ esc[t].pc = "stop_reset"
  /\ state' = AlertState
  /\ unplugged_at' = -1
  /\ lock' = FALSE
  /\ esc' = [esc EXCEPT ![t].pc = "stop_close"]
  /\ EscLockUnchanged
  /\ UNCHANGED <<running, trig, noop>>

\* _show_next_warning: the lock, self.state.warning_count += 1 and count
WarnLockCount(t) ==
  /\ esc[t].pc = "warn_inc"
  /\ ~lock
  /\ state' = [state EXCEPT !.warning_count = @ + 1]
  /\ lock' = TRUE
  /\ esc' = [esc EXCEPT ![t].pc = "warn_stage",
                        ![t].count = state.warning_count + 1]
  /\ EscLockUnchanged
  /\ UNCHANGED <<running, unplugged_at, trig, noop>>

\* _show_next_warning: the stage for count, and the lock is released
WarnLockStage(t) ==
  /\ esc[t].pc = "warn_stage"
  /\ state' = [state EXCEPT !.current_stage = StageFor(esc[t].count)]
  /\ lock' = FALSE
  /\ esc' = [esc EXCEPT ![t].pc = "warn_close"]
  /\ EscLockUnchanged
  /\ UNCHANGED <<running, unplugged_at, trig, noop>>

\* _initiate_shutdown: the lock and shutdown_initiated = True
InitLockFlag(t) ==
  /\ esc[t].pc = "init_lock"
  /\ ~lock
  /\ state' = [state EXCEPT !.shutdown_initiated = TRUE]
  /\ trig' = [trig EXCEPT !.entries = @ + 1]
  /\ lock' = TRUE
  /\ esc' = [esc EXCEPT ![t].pc = "init_stage"]
  /\ EscLockUnchanged
  /\ UNCHANGED <<running, unplugged_at, noop>>

\* _initiate_shutdown: current_stage = SHUTDOWN, and the lock is released
InitLockStage(t) ==
  /\ esc[t].pc = "init_stage"
  /\ state' = [state EXCEPT !.current_stage = "SHUTDOWN"]
  /\ lock' = FALSE
  /\ esc' = [esc EXCEPT ![t].pc = "init_close"]
  /\ EscLockUnchanged
  /\ UNCHANGED <<running, unplugged_at, trig, noop>>

RaceNext ==
  \/ Unplug
  \/ Tick
  \/ SamplerPoll
  \/ SamplerNotify
  \/ \E w \in Callers : StartLockState(w)
  \/ \E w \in Callers : StartLockRunning(w)
  \/ SamplerStartShow
  \/ SamplerStartThread
  \/ SamplerSlice
  \/ UiCheckNow
  \/ UiStartShow
  \/ UiStartThread
  \/ UiStop
  \/ UiForceClose
  \/ UiForceCancel
  \/ UiForceReset
  \/ UiMonitorStop
  \/ \E t \in Threads : EscLoop(t)
  \/ \E t \in Threads : EscElapsed(t)
  \/ \E t \in Threads : EscUnplugCheck(t)
  \/ \E t \in Threads : StopLockRunning(t)
  \/ \E t \in Threads : StopLockState(t)
  \/ \E t \in Threads : EscStopClose(t)
  \/ \E t \in Threads : EscStopCancel(t)
  \/ \E t \in Threads : EscShutdownCheck(t)
  \/ \E t \in Threads : InitLockFlag(t)
  \/ \E t \in Threads : InitLockStage(t)
  \/ \E t \in Threads : EscInitClose(t)
  \/ \E t \in Threads : EscInitShow(t)
  \/ \E t \in Threads : EscInitTrigger(t)
  \/ \E t \in Threads : EscMonitor(t)
  \/ \E t \in Threads : EscWarnCheck(t)
  \/ \E t \in Threads : WarnLockCount(t)
  \/ \E t \in Threads : WarnLockStage(t)
  \/ \E t \in Threads : EscWarnClose(t)
  \/ \E t \in Threads : EscWarnShow(t)

SpecRace == RaceInit /\ [][RaceNext]_vars

\* ---------------------------------------------------------------- presenter
\* The Warning Presenter with its window threads.  A popup is built by a
\* thread of its own (create_window), which takes the dialog's lock only for
\* its first block and for its finally block; the controller's calls return
\* at once.  A step of a window thread comes at most WindowLag after it has
\* become possible.
WindowLag == 4

\* _show_popup: threading.Thread(target=create_window).start()
SpawnPopup(p, can_dismiss, count, fallback, at) ==
  [p EXCEPT !.wins = Append(@, [pc |-> "begin", due |-> at + WindowLag,
                                can_dismiss |-> can_dismiss, count |-> count,
                                fallback |-> fallback, open |-> FALSE,
                                quit |-> FALSE])]

Mark(p, ok) == IF ok THEN [p EXCEPT !.any_ok = TRUE]
               ELSE [p EXCEPT !.any_fail = TRUE]

\* faulty variant: the except branch only logs
ShowToast_NoFallback(p, toast_ok, at) ==
  [p |-> Mark(p, toast_ok), raised |-> FALSE]

\* _show_toast: the notification, and in the except branch
\* _show_popup(battery_percent, 1, 300, can_dismiss=True)
ShowToast(p, toast_ok, at) ==
  IF toast_ok THEN [p |-> Mark(p, TRUE), raised |-> FALSE]
  ELSE [p |-> SpawnPopup(Mark(p, FALSE), TRUE, 1, TRUE, at), raised |-> FALSE]

\* show_warning
PresShowWarning(p, stage, count, toast_ok, at) ==
  IF stage = "TOAST" THEN ShowToast(p, toast_ok, at)
  ELSE IF stage \in {"POPUP", "MODAL"}
       THEN [p |-> SpawnPopup(p, stage = "POPUP", count, FALSE, at),
             raised |-> FALSE]
       ELSE [p |-> p, raised |-> FALSE]

\* _close_warning, under the dialog's lock: quit and destroy the window the
\* dialog holds (an exception is swallowed), forget it, clear _is_showing
PresCloseWarning(p, close_ok, at) ==
  LET w == p.window
      q == IF w = 0 THEN p
           ELSE IF close_ok
                THEN [Mark(p, TRUE) EXCEPT !.wins[w].quit = TRUE,
                                           !.wins[w].open = FALSE,
                                           !.wins[w].due = at + WindowLag]
                ELSE Mark(p, FALSE)
  IN [q EXCEPT !.window = 0, !.is_showing = FALSE]

\* cancel_shutdown: `self._shutdown_countdown = -1`, the window quit and
\* destroyed (an exception is swallowed) and forgotten, then the cancel
\* callback
PresCancelShutdown(p, close_ok) ==
  LET q == IF ~p.shutdown_window THEN p
           ELSE IF close_ok
                THEN [Mark(p, TRUE) EXCEPT !.shutdown_window = FALSE,
                                           !.sd_open = FALSE,
                                           !.sd = "dead", !.sd_due = -1]
                ELSE [Mark(p, FALSE) EXCEPT !.shutdown_window = FALSE]
  IN [q EXCEPT !.shutdown_countdown = -1,
               !.cancelled = p.on_shutdown,
               !.cancel_called = p.on_cancel]

\* close_all: _close_warning, then cancel_shutdown
PresCloseAll(p, close_ok, at) ==
  PresCancelShutdown(PresCloseWarning(p, close_ok, at), close_ok)

\* show_shutdown_warning: the countdown and the two callbacks are stored
NewCountdown(p, countdown_seconds) ==
  [p EXCEPT !.shutdown_countdown = countdown_seconds,
            !.on_shutdown = TRUE, !.on_cancel = TRUE,
            !.expiry_called = FALSE, !.cancel_called = FALSE,
            !.cancelled = FALSE]

\* faulty variant: the window is built by the caller
PresShowShutdown_InCaller(p, countdown_seconds, tk_ok, at) ==
  IF tk_ok
  THEN [p |-> [Mark(NewCountdown(p, countdown_seconds), TRUE)
                 EXCEPT !.shutdown_window = TRUE, !.sd_open = TRUE,
                        !.sd = "mainloop", !.cd.pc = "while"],
        raised |-> FALSE]
  ELSE [p |-> Mark(NewCountdown(p, countdown_seconds), FALSE), raised |-> TRUE]

\* show_shutdown_warning: threading.Thread(target=create_shutdown_window)
PresShowShutdown(p, countdown_seconds, tk_ok, at) ==
  [p |-> [NewCountdown(p, countdown_seconds)
            EXCEPT !.sd = "create", !.sd_due = at + WindowLag],
   raised |-> FALSE]

\* the times by which a window thread has to take its next step
DueTimes ==
  {pres.wins[w].due : w \in {v \in 1..Len(pres.wins) :
       \/ pres.wins[v].pc \in {"begin", "create", "finally"}
       \/ pres.wins[v].pc = "mainloop" /\ pres.wins[v].quit}}
  \cup (IF pres.sd = "create" THEN {pres.sd_due} ELSE {})

CtlUnchanged ==
  UNCHANGED <<now, cfg, reg_threshold, power, unplugged_at, last_status,
              last_sample_time, mon_running, sampler, state, running, esc,
              dialog, presented, os_shutdown, trig, lock, ui, noop, bus, life,
              cm, probe>>

\* create_window: `if self._is_showing: return`, `self._is_showing = True`
WinBegin(w) ==
  /\ w \in 1..Len(pres.wins)
  /\ pres.wins[w].pc = "begin"
  /\ pres' = IF pres.is_showing
             THEN [pres EXCEPT !.wins[w].pc = "dropped"]
             ELSE [pres EXCEPT !.is_showing = TRUE, !.wins[w].pc = "create",
                               !.wins[w].due = now + WindowLag]
  /\ CtlUnchanged

\* create_window: `self._window = tk.Tk()` and the widgets, up to mainloop;
\* an exception goes to the finally block
WinCreate(w) ==
  /\ w \in 1..Len(pres.wins)
  /\ pres.wins[w].pc = "create"
  /\ \E tk_ok \in BOOLEAN :
       pres' = IF tk_ok
               THEN [Mark(pres, TRUE) EXCEPT !.window = w,
                                             !.wins[w].open = TRUE,
                                             !.wins[w].pc = "mainloop"]
               ELSE [Mark(pres, FALSE) EXCEPT !.wins[w].pc = "finally",
                                              !.wins[w].due = now + WindowLag]
  /\ CtlUnchanged

\* create_window: mainloop returns after quit
WinReturn(w) ==
  /\ w \in 1..Len(pres.wins)
  /\ pres.wins[w].pc = "mainloop"
  /\ pres.wins[w].quit
  /\ pres' = [pres EXCEPT !.wins[w].pc = "finally",
                          !.wins[w].due = now + WindowLag]
  /\ CtlUnchanged

\* create_window: the finally block, under the dialog's lock
WinFinally(w) ==
  /\ w \in 1..Len(pres.wins)
  /\ pres.wins[w].pc = "finally"
  /\ pres' = [pres EXCEPT !.is_showing = FALSE, !.window = 0,
                          !.wins[w].pc = "dead"]
  /\ CtlUnchanged

\* create_shutdown_window: `self._shutdown_window = tk.Tk()`, the widgets,
\* the countdown thread started, up to mainloop
ShutdownWinCreate ==
  /\ pres.sd = "create"
  /\ \E tk_ok \in BOOLEAN :
       pres' = IF tk_ok
               THEN [Mark(pres, TRUE) EXCEPT !.shutdown_window = TRUE,
                                             !.sd_open = TRUE,
                                             !.sd = "mainloop", !.sd_due = -1,
                                             !.cd.pc = "while"]
               ELSE [Mark(pres, FALSE) EXCEPT !.sd = "dead", !.sd_due = -1]
  /\ CtlUnchanged

\* _countdown_loop: `while self._shutdown_countdown > 0 and
\* self._shutdown_window:` and time.sleep(1)
CountdownWhile ==
  /\ pres.cd.pc = "while"
  /\ pres' = IF pres.shutdown_countdown > 0 /\ pres.shutdown_window
             THEN [pres EXCEPT !.cd.pc = "sleep", !.cd.wake = now + TickSleep]
             ELSE [pres EXCEPT !.cd.pc = "after"]
  /\ CtlUnchanged

\* _countdown_loop: `self._shutdown_countdown -= 1`, the value is read ...
CountdownRead ==
  /\ pres.cd.pc = "sleep"
  /\ pres.cd.wake <= now
  /\ pres' = [pres EXCEPT !.cd.pc = "write", !.cd.read = pres.shutdown_countdown]
  /\ CtlUnchanged

\* ... and written back less one; the label is redrawn in a try block
CountdownWrite ==
  /\ pres.cd.pc = "write"
  /\ pres' = [pres EXCEPT !.cd.pc = "while", !.cd.read = 0,
                          !.shutdown_countdown = pres.cd.read - 1]
  /\ CtlUnchanged

\* _countdown_loop: `if self._shutdown_countdown <= 0 and
\* self._on_shutdown_callback:` the callback is called
CountdownAfter ==
  /\ pres.cd.pc = "after"
  /\ pres' = [pres EXCEPT !.cd.pc = "dead",
                          !.expiry_called =
                              IF pres.shutdown_countdown <= 0 /\ pres.on_shutdown
                              THEN TRUE ELSE @]
  /\ CtlUnchanged

\* time passes, but not beyond the next step a window thread has to take
PresTick ==
  /\ ~AnyRunnable
  /\ WakeTimes # {}
  /\ Min(WakeTimes) <= Horizon(cfg)
  /\ \A d \in DueTimes : Min(WakeTimes) <= d
  /\ now' = Min(WakeTimes)
  /\ UNCHANGED <<cfg, reg_threshold, power, unplugged_at, last_status,
                 last_sample_time, mon_running, sampler, state, running, esc,
                 dialog, presented, os_shutdown, trig, ext>>

PresUnchanged ==
  UNCHANGED <<now, cfg, reg_threshold, power, last_status, last_sample_time,
              mon_running, unplugged_at, state, running, dialog, os_shutdown,
              trig, lock, ui, noop, bus, life, cm, probe>>

\* the thread that got an exception from the presenter ends
Crashed(th) == [th EXCEPT !.pc = "crashed"]

\* _start_alert_sequence: the initial toast
PresStartShow ==
  /\ sampler.pc = "start_show"
  /\ \E toast_ok \in BOOLEAN :
       LET r == PresShowWarning(pres, "TOAST", 1, toast_ok, now)
       IN /\ pres' = [r.p EXCEPT !.initial = IF toast_ok THEN "toast"
                                             ELSE "fallback"]
          /\ sampler' = IF r.raised THEN Crashed(sampler)
                        ELSE [sampler EXCEPT !.pc = "start_thread"]
  /\ presented' = [stage |-> "TOAST", count |-> 1]
  /\ UNCHANGED esc
  /\ PresUnchanged

\* _stop_alert_sequence: close_all
PresStopClose(t) ==
  /\ esc[t].pc = "stop_close"
  /\ \E close_ok \in BOOLEAN : pres' = PresCloseAll(pres, close_ok, now)
  /\ presented' = NoPresent
  /\ esc' = [esc EXCEPT ![t].pc = "stop_cancel"]
  /\ UNCHANGED sampler
  /\ PresUnchanged

\* _initiate_shutdown: close_all and time.sleep(0.3)
PresInitClose(t) ==
  /\ esc[t].pc = "init_close"
  /\ \E close_ok \in BOOLEAN : pres' = PresCloseAll(pres, close_ok, now)
  /\ presented' = NoPresent
  /\ esc' = [esc EXCEPT ![t].pc = "init_pause", ![t].wake = now + CleanupPause]
  /\ UNCHANGED sampler
  /\ PresUnchanged

\* _initiate_shutdown: show_shutdown_warning
PresInitShow(t) ==
  /\ esc[t].pc = "init_pause"
  /\ esc[t].wake <= now
  /\ \E tk_ok \in BOOLEAN :
       LET r == PresShowShutdown(pres, esc[t].conf.shutdown_countdown_seconds,
                                 tk_ok, now)
       IN /\ pres' = r.p
          /\ esc' = [esc EXCEPT ![t] = IF r.raised THEN Crashed(@)
                                       ELSE [@ EXCEPT !.pc = "init_trigger"]]
  /\ UNCHANGED <<sampler, presented>>
  /\ PresUnchanged

\* _show_next_warning: close_all and time.sleep(0.3)
PresWarnClose(t) ==
  /\ esc[t].pc = "warn_close"
  /\ \E close_ok \in BOOLEAN : pres' = PresCloseAll(pres, close_ok, now)
  /\ presented' = NoPresent
  /\ esc' = [esc EXCEPT ![t].pc = "warn_pause", ![t].wake = now + CleanupPause]
  /\ UNCHANGED sampler
  /\ PresUnchanged

\* _show_next_warning: show_warning with the stage the state holds now
PresWarnShow(t) ==
  /\ esc[t].pc = "warn_pause"
  /\ esc[t].wake <= now
  /\ \E toast_ok \in BOOLEAN :
       LET r == PresShowWarning(pres, state.current_stage, esc[t].count,
                                toast_ok, now)
       IN /\ pres' = r.p
          /\ esc' = [esc EXCEPT ![t] = IF r.raised THEN Crashed(@)
                                       ELSE [@ EXCEPT !.pc = "loop"]]
  /\ presented' = [stage |-> state.current_stage, count |-> esc[t].count]
  /\ UNCHANGED sampler
  /\ PresUnchanged

PresInit ==
  /\ InitWith({RaceConfig}, NoUi)
  /\ power.ok /\ power.is_plugged /\ power.percent >= cfg.battery_threshold

PresNext ==
  \/ Unplug
  \/ PresTick
  \/ SamplerPoll
  \/ SamplerNotify
  \/ SamplerStartLock
  \/ PresStartShow
  \/ SamplerStartThread
  \/ SamplerSlice
  \/ \E w \in 1..Len(pres.wins) :
       \/ WinBegin(w)
       \/ WinCreate(w)
       \/ WinReturn(w)
       \/ WinFinally(w)
  \/ ShutdownWinCreate
  \/ CountdownWhile
  \/ CountdownRead
  \/ CountdownWrite
  \/ CountdownAfter
  \/ \E t \in Threads :
       \/ EscLoop(t)
       \/ EscElapsed(t)
       \/ EscUnplugCheck(t)
       \/ EscStopLock(t)
       \/ PresStopClose(t)
       \/ EscStopCancel(t)
       \/ EscShutdownCheck(t)
       \/ EscInitLock(t)
       \/ PresInitClose(t)
       \/ PresInitShow(t)
       \/ EscInitTrigger(t)
       \/ EscMonitor(t)
       \/ EscWarnCheck(t)
       \/ EscWarnInc(t)
       \/ PresWarnClose(t)
       \/ PresWarnShow(t)

SpecPresenter == PresInit /\ [][PresNext]_vars


\* ================================================================== claims
\* One controller tick: the sleep of the loop and the pause of a warning.
OneTick == TickSleep + CleanupPause

PluggedHigh(st) == st.ok /\ st.is_plugged /\ st.percent >= cfg.battery_threshold

PluggedLow(st) == st.ok /\ st.is_plugged /\ st.percent < cfg.battery_threshold

\* no thread is between the reset of the state and the calls that follow it
NoStopInProgress == \A t \in Threads : esc[t].pc \notin {"stop_close", "stop_cancel"}

\* C1: an unplugged sample recorded while the controller is ACTIVE or
\* SHUTDOWN_PENDING is followed, within one controller tick, by the reset
\* to IDLE; once the stop is through, the AlertState is the zero value, no
\* presentation is open and no shutdown stays scheduled.
C1_UnplugResets ==
  /\ (NonIdle /\ IsUnplugged(last_status)) => now - last_sample_time <= OneTick
  /\ ~state.is_active =>
       state = [warning_count |-> 0, elapsed_seconds |-> 0, is_active |-> FALSE,
                current_stage |-> "TOAST", shutdown_initiated |-> FALSE]
  /\ (~state.is_active /\ NoStopInProgress) =>
       /\ dialog.window = "none" /\ ~dialog.is_showing /\ ~dialog.shutdown_window
       /\ ~os_shutdown

\* a sequence that had its shutdown scheduled was cancelled by an unplugged
\* sample, half a second earlier
C1_Witness ==
  /\ ~state.is_active /\ NoStopInProgress
  /\ trig.schedules = 1 /\ ~os_shutdown
  /\ IsUnplugged(last_status)
  /\ now = last_sample_time + SliceSleep

\* the end of the countdown, counted from the start of the sequence, in the
\* scenario of the specification: max_time, then the countdown
ScenarioEnd(c) == (c.max_time_minutes * 60 + c.shutdown_countdown_seconds) * 10

\* the charger is unplugged, and was while the sequence ran
UnpluggedInSequence == unplugged_at # -1 /\ IsUnplugged(power)

\* in the reference scenario no sequence reaches the end of its countdown
\* with the charger unplugged before t = 360 s, the cancel of a scheduled
\* shutdown comes before its countdown has elapsed, and a cancelled
\* sequence leaves no shutdown scheduled
C2_CancelledBeforeElapse ==
  cfg = RefConfig =>
    /\ \A t \in Threads :
         /\ (esc[t].pc = "terminal" /\ UnpluggedInSequence) =>
              unplugged_at >= esc[t].start_time + ScenarioEnd(cfg)
         /\ (esc[t].pc = "stop_cancel" /\ esc[t].was_shutdown) =>
              now < esc[t].mon_start + cfg.shutdown_countdown_seconds * 10
    /\ (~state.is_active /\ NoStopInProgress) => ~os_shutdown

C3_LowChargeCancels ==
  (NonIdle /\ PluggedLow(last_status)) => now - last_sample_time <= OneTick

\* the sampler has just finished with a sample that it took at this instant
SampleHandled ==
  /\ sampler.pc = "sleeping"
  /\ sampler.wake = now + sampler.check_interval * 10
  /\ last_sample_time = now

\* C4: a sample plugged at or above the threshold, taken while the
\* controller is IDLE, starts a sequence at once: ACTIVE at stage TOAST with
\* warning_count = 0, elapsed_seconds = 0, is_active = true, the TOAST
\* warning presented and the escalation thread started.
C4_StartsSequence ==
  (SampleHandled /\ PluggedHigh(last_status) /\ sampler.saw_idle) =>
    /\ state = [warning_count |-> 0, elapsed_seconds |-> 0, is_active |-> TRUE,
                current_stage |-> "TOAST", shutdown_initiated |-> FALSE]
    /\ presented = [stage |-> "TOAST", count |-> 1]
    /\ \E t \in Threads : esc[t].pc \in {"loop", "sleep"} /\ esc[t].start_time = now

\* a later sample, exactly at the threshold, has started a sequence
C4_Witness ==
  /\ SampleHandled /\ sampler.saw_idle /\ now > 0
  /\ last_status.is_plugged /\ last_status.percent = cfg.battery_threshold
  /\ state.is_active

\* C5: a tick of an active sequence that is not cancelled goes on to
\* SHUTDOWN_PENDING exactly when warning_count >= max_warnings or
\* elapsed_seconds >= max_time_minutes * 60, and shutdown_initiated is
\* false; in the reference configuration that is at elapsed_seconds = 300
\* with fewer than 10 warnings.
C5_ShutdownCondition ==
  \A t \in Threads :
    LET due == /\ \/ state.warning_count >= cfg.max_warnings
                  \/ state.elapsed_seconds >= cfg.max_time_minutes * 60
               /\ ~state.shutdown_initiated
    IN /\ esc[t].pc = "init_lock" => due
       /\ esc[t].pc = "warn_check" => ~due
       /\ (esc[t].pc = "init_lock" /\ cfg = RefConfig) =>
            state.elapsed_seconds = 300 /\ state.warning_count < 10

C5_Witness ==
  \E t \in Threads :
    /\ cfg = RefConfig /\ esc[t].pc = "init_lock"
    /\ state.elapsed_seconds = 300 /\ state.warning_count = 9

\* C6: within one sequence SHUTDOWN_PENDING is entered at most once and the
\* shutdown is scheduled at most once.
C6_ShutdownOnce == trig.entries <= 1 /\ trig.schedules <= 1

\* max-warnings and max-time became true in the same tick (both were false
\* at the tick before: the one warning came after its check), and the
\* countdown of the one shutdown has elapsed
C6_Witness ==
  \E t \in Threads :
    /\ cfg = BothConfig /\ esc[t].pc = "terminal"
    /\ state.warning_count = cfg.max_warnings
    /\ state.elapsed_seconds = cfg.max_time_minutes * 60
    /\ trig.entries = 1 /\ trig.schedules = 1

\* the positions of a thread inside the `while self._running` loop
LoopPcs == {"loop", "sleep", "unplug_check", "shutdown_check", "warn_check"}

\* a tick has found the next warning due / not due
C7_TickDecides(t) ==
  LET since == now - esc[t].last_warning_time
      interval == cfg.warning_interval_seconds * 10
  IN /\ (esc[t].pc = "warn_check" /\ esc'[t].pc = "warn_inc") =>
          since >= interval /\ since < interval + TickSleep
     /\ (esc[t].pc = "warn_check" /\ esc'[t].pc = "loop") => since < interval

\* warning_count changes within a sequence
C7_CountChanges ==
  state.is_active /\ state'.is_active /\ state'.warning_count # state.warning_count

\* C7: while a sequence is ACTIVE and not shutdown-pending, warning_count
\* goes up by exactly 1 at the tick that finds warning_interval_seconds
\* elapsed since the previous warning (since the start for the first), and
\* it changes at no other time: no tick leaves a due warning behind.
C7_WarningEveryInterval ==
  /\ [](\A t \in Threads :
          esc[t].pc = "loop" =>
            now - esc[t].last_warning_time < cfg.warning_interval_seconds * 10)
  /\ [][/\ \A t \in Threads : C7_TickDecides(t)
        /\ C7_CountChanges =>
             /\ state'.warning_count = state.warning_count + 1
             /\ ~state.shutdown_initiated
             /\ \E t \in Threads :
                  /\ esc[t].pc = "warn_inc"
                  /\ esc[t].last_warning_time = now]_vars

\* the third warning of the reference configuration: the intervals are
\* counted from the tick of the previous warning, 0.3 s later each time
C7_Witness ==
  \E t \in Threads :
    /\ cfg = RefConfig /\ esc[t].pc = "warn_close"
    /\ state.warning_count = 3
    /\ now - esc[t].start_time = 906

C9_AfterTickAt(secs) ==
  /\ cfg = RefConfig
  /\ power = [ok |-> TRUE, is_plugged |-> TRUE, percent |-> 96]
  /\ last_status = power
  /\ \E t \in Threads :
       /\ esc[t].start_time = 0 /\ esc[t].pc = "loop"
       /\ state.elapsed_seconds = secs

\* C9, as stated: in the reference scenario the controller is at warning 2
\* with stage POPUP at t = 30 s and at warning 6 with stage MODAL at
\* t = 150 s.
C9_ReferenceTimeline ==
  /\ C9_AfterTickAt(30) =>
       state.warning_count = 2 /\ state.current_stage = "POPUP"
  /\ C9_AfterTickAt(150) =>
       state.warning_count = 6 /\ state.current_stage = "MODAL"

\* the countdown of thread t has elapsed with no unplugged sample seen
C10_Over(t) ==
  /\ state.shutdown_initiated
  /\ esc[t].pc \in LoopPcs \cup {"terminal"}

\* C10: once the countdown has elapsed with no unplugged sample seen, the
\* thread has left its tick loop for good and the AlertState, warning_count
\* and elapsed_seconds with it, is never written again.
C10_SequenceEnds ==
  /\ [](\A t \in Threads :
          /\ C10_Over(t) =>
               /\ esc[t].pc = "terminal"
               /\ now >= esc[t].mon_start + cfg.shutdown_countdown_seconds * 10
               /\ \A u \in Threads \ {t} : esc[u].pc \in {"none", "done"}
          /\ esc[t].pc = "mon_sleep" =>
               esc[t].wake - SliceSleep <
                 esc[t].mon_start + cfg.shutdown_countdown_seconds * 10)
  /\ [][\A t \in Threads :
          C10_Over(t) => /\ state' = state
                         /\ esc'[t] = esc[t]]_vars

\* after the countdown elapsed the sampler has recorded an unplugged sample,
\* and the state stays as the countdown left it
C10_Witness ==
  \E t \in Threads :
    /\ esc[t].pc = "terminal"
    /\ last_sample_time > esc[t].mon_start + cfg.shutdown_countdown_seconds * 10
    /\ IsUnplugged(last_status)
    /\ state.shutdown_initiated /\ state.is_active

\* C11, as stated: whenever is_active is false the AlertState is the fresh
\* zero value, under every interleaving of the sampler thread, the
\* escalation thread and force_stop.
C11_IdleIsZero ==
  ~state.is_active =>
    /\ state.warning_count = 0
    /\ state.elapsed_seconds = 0
    /\ ~state.shutdown_initiated

\* thread t is inside the body of `while self._running`
InLoopBody(t) ==
  esc[t].pc \in {"sleep", "unplug_check", "shutdown_check", "warn_check",
                 "warn_inc", "warn_stage", "warn_close", "warn_pause"}

\* C12, as stated: at most one escalation loop ticks at any time, also
\* when a stop is followed by a new start while the previous thread sleeps.
C12_OneLoop == Cardinality({t \in Threads : InLoopBody(t)}) <= 1

\* C13: a start while a sequence is active leaves the AlertState as it is,
\* presents nothing and starts no thread; a stop while idle leaves the
\* AlertState as it is, closes nothing and cancels no shutdown.
C13_GuardedNoOps ==
  [][/\ \A w \in Callers :
          (CallerPc(w) = "start_lock" /\ state.is_active
             /\ CallerPc(w)' # "start_lock") =>
            /\ state' = state /\ running' = running
            /\ dialog' = dialog /\ presented' = presented
            /\ esc' = esc
            /\ CallerPc(w)' \in {"idle", "sleeping", "poll"}
     /\ \A t \in Threads :
          (esc[t].pc = "stop_lock" /\ ~state.is_active
             /\ esc'[t].pc # "stop_lock") =>
            /\ state' = state /\ running' = running
            /\ dialog' = dialog /\ presented' = presented
            /\ os_shutdown' = os_shutdown
            /\ esc'[t].pc \in {"done", "loop"}]_vars

\* a start has returned at its guard and so has a stop
C13_Witness == noop.start /\ noop.stop

\* C14, as stated: every AlertState a reader can see has
\* current_stage = f(warning_count, shutdown_initiated).
C14_StageIsFunction ==
  state.current_stage =
    IF state.shutdown_initiated THEN "SHUTDOWN"
    ELSE IF state.warning_count <= 1 THEN "TOAST"
    ELSE IF state.warning_count <= 5 THEN "POPUP"
    ELSE "MODAL"

\* ------------------------------------------------------------- subscribers
\* The BatteryMonitor with subscribers of any kind: a subscriber is a name;
\* a call of "a" returns, a call of "b" raises an Exception.  The application
\* registers its subscribers in BatteryTrayApp.__init__, before the monitor
\* is started.
MaxSubs == 2
MaxPolls == 3

Subscribers == {"a", "b"}

Raises(sub) == sub = "b"

\* the thresholds a subscriber registers with
Thresholds(c) == {c.battery_threshold, c.battery_threshold + 1}

\* what psutil can answer: a power state, or no answer
QueryResults(c) == PowerStates(c) \cup {NoStatus}

BusUnchanged ==
  UNCHANGED <<now, cfg, reg_threshold, unplugged_at, mon_running, state,
              running, esc, dialog, presented, os_shutdown, trig, lock, ui,
              noop, pres, life, cm, probe>>

NotStarted == bus.polls = 0 /\ sampler.pc = "poll"

\* add_status_callback
AddStatusCallback(sub) ==
  /\ NotStarted
  /\ Len(bus.callbacks) < MaxSubs
  /\ bus' = [bus EXCEPT !.callbacks = Append(@, sub)]
  /\ UNCHANGED <<power, last_status, last_sample_time, sampler>>
  /\ BusUnchanged

\* add_threshold_callback
AddThresholdCallback(threshold, sub) ==
  /\ NotStarted
  /\ Len(bus.threshold_callbacks) < MaxSubs
  /\ bus' = [bus EXCEPT !.threshold_callbacks = Append(@, <<threshold, sub>>)]
  /\ UNCHANGED <<power, last_status, last_sample_time, sampler>>
  /\ BusUnchanged

\* list.remove: the first occurrence goes
RemoveFirst(seq, x) ==
  LET at == {i \in 1..Len(seq) : seq[i] = x}
  IN IF at = {} THEN seq
     ELSE SubSeq(seq, 1, Min(at) - 1) \o SubSeq(seq, Min(at) + 1, Len(seq))

\* remove_callback
RemoveCallback(sub) ==
  /\ NotStarted
  /\ \/ \E i \in 1..Len(bus.callbacks) : bus.callbacks[i] = sub
     \/ \E i \in 1..Len(bus.threshold_callbacks) : bus.threshold_callbacks[i][2] = sub
  /\ bus' = [bus EXCEPT
       !.callbacks = RemoveFirst(@, sub),
       !.threshold_callbacks = SelectSeq(@, LAMBDA pair : pair[2] # sub)]
  /\ UNCHANGED <<power, last_status, last_sample_time, sampler>>
  /\ BusUnchanged

\* faulty variant: the status is stored whatever the query returned
RecordStatus_Always(prev, status) == status

\* _monitor_loop: `if status: self._last_status = status`
RecordStatus(prev, status) == IF status.ok THEN status ELSE prev

\* the calls of a loop over entries, each with its outcome
Calls(entries) ==
  [i \in 1..Len(entries) |-> [entries[i] EXCEPT !.raised = Raises(entries[i].sub)]]

\* faulty variant: no try around the call; the first exception ends the loops
Survivors_NoTry(calls) ==
  LET bad == {i \in 1..Len(calls) : calls[i].raised}
  IN IF bad = {} THEN calls ELSE SubSeq(calls, 1, Min(bad))

\* _notify_callbacks: each call is made inside try/except Exception, so
\* every call of the two loops is made
Survivors(calls) == calls

\* the entries of the status loop, in list order
StatusEntries(cbs) ==
  [i \in 1..Len(cbs) |->
     [kind |-> "status", pos |-> i, sub |-> cbs[i], raised |-> FALSE]]

RECURSIVE DueEntries(_, _, _)
\* the entries of the threshold loop, in list order: under
\* `if status.is_plugged`, the pairs with `status.percent >= threshold`
DueEntries(status, tcbs, i) ==
  IF i > Len(tcbs) THEN <<>>
  ELSE (IF ThresholdFires(status, tcbs[i][1])
        THEN <<[kind |-> "threshold", pos |-> i, sub |-> tcbs[i][2],
                raised |-> FALSE]>>
        ELSE <<>>) \o DueEntries(status, tcbs, i + 1)

\* faulty variant: the threshold loop comes first
NotifyLog_ThresholdFirst(status, cbs, tcbs) ==
  LET entries == DueEntries(status, tcbs, 1) \o StatusEntries(cbs)
  IN Survivors(Calls(entries))

\* _notify_callbacks: the status loop, then the threshold loop
NotifyLog(status, cbs, tcbs) ==
  LET entries == StatusEntries(cbs) \o DueEntries(status, tcbs, 1)
  IN Survivors(Calls(entries))

\* a subscriber whose callback calls add_status_callback,
\* add_threshold_callback or remove_callback of the monitor that calls it
Reenters(sub) == sub = "c"

\* _notify_callbacks makes its calls inside `with self._lock`, and the lock
\* is a threading.Lock: the `with self._lock` of a call made from inside a
\* callback waits for the lock its own thread holds.  The calls that are
\* entered: all, or those up to the first one that does not come back.
Entered(calls) ==
  LET waits == {i \in 1..Len(calls) : Reenters(calls[i].sub)}
  IN IF waits = {} THEN calls ELSE SubSeq(calls, 1, Min(waits))

\* the sampler thread is left waiting inside _notify_callbacks
Waits(calls) == \E i \in 1..Len(calls) : Reenters(calls[i].sub)

\* why a query gives no status: psutil.sensors_battery() returned None, or
\* the query raised
FailureCauses == {"no_battery", "error"}

\* get_battery_status: the BatteryStatus of psutil's answer; None after the
\* warning "No battery detected", and None from the except branch
GetBatteryStatus(answer, cause) ==
  IF answer.ok THEN answer
  ELSE IF cause = "no_battery" THEN NoStatus
  ELSE NoStatus

\* _monitor_loop: get_battery_status, `if status:`, _last_status and
\* _notify_callbacks, all inside try/except; then the sleep in slices
BusPoll ==
  /\ sampler.pc = "poll"
  /\ mon_running
  /\ bus.polls < MaxPolls
  /\ \E cause \in FailureCauses :
     LET status == GetBatteryStatus(power, cause)
     IN /\ last_status' = RecordStatus(last_status, status)
        /\ last_sample_time' = IF status.ok THEN now ELSE last_sample_time
        /\ bus' = [bus EXCEPT
               !.polls = @ + 1,
               !.skipped = IF status.ok THEN @ ELSE @ + 1,
               !.last_good = IF status.ok THEN status ELSE @,
               !.after_raise = @ \/ \E i \in 1..Len(bus.log) : bus.log[i].raised,
               !.ret[cause] = IF power.ok THEN @ ELSE @ \cup {status},
               !.log = IF status.ok
                       THEN Entered(NotifyLog(status, bus.callbacks,
                                              bus.threshold_callbacks))
                       ELSE <<>>]
        /\ sampler' =
             IF status.ok /\ Waits(NotifyLog(status, bus.callbacks,
                                             bus.threshold_callbacks))
             THEN [sampler EXCEPT !.status = status, !.pc = "waiting"]
             ELSE BeginSleep([sampler EXCEPT !.status = status],
                             sampler.check_interval, mon_running)
  /\ UNCHANGED power
  /\ BusUnchanged

\* the answer of the next query changes while the sampler sleeps
BusPowerChange ==
  /\ bus.polls > 0
  /\ \E p \in QueryResults(cfg) \ {power} : PowerChangeTo(p)

BusInit ==
  /\ InitWith({RaceConfig}, NoUi)

BusNext ==
  \/ \E sub \in Subscribers : AddStatusCallback(sub)
  \/ \E sub \in Subscribers : \E th \in Thresholds(cfg) : AddThresholdCallback(th, sub)
  \/ \E sub \in Subscribers : RemoveCallback(sub)
  \/ BusPoll
  \/ BusPowerChange
  \/ SamplerSlice
  \/ Tick

SpecSampler == BusInit /\ [][BusNext]_vars

\* the same monitor with a subscriber that returns and one that calls the
\* monitor from inside its callback
ReenterSubscribers == {"a", "c"}

ReenterNext ==
  \/ \E sub \in ReenterSubscribers : AddStatusCallback(sub)
  \/ \E sub \in ReenterSubscribers : \E th \in Thresholds(cfg) :
       AddThresholdCallback(th, sub)
  \/ \E sub \in ReenterSubscribers : RemoveCallback(sub)
  \/ BusPoll
  \/ BusPowerChange
  \/ SamplerSlice
  \/ Tick

SpecReenter == BusInit /\ [][ReenterNext]_vars

\* ---------------------------------------------------- start and stop
\* BatteryMonitor.start and stop, called from two threads, statement by
\* statement (neither takes a lock), and the _monitor_loop threads with
\* their sleep in slices of 0.5 s.
JoinTimeout == 50

\* after BatteryTrayApp.start: the first _monitor_loop thread is running
StartedLife ==
  [NoLife EXCEPT !.loops[1] = [pc |-> "while", left |-> 0, wake |-> 0],
                 !.thread = 1, !.calls = MaxCalls]

LiveLoops == {i \in LoopIds : life.loops[i].pc \in {"while", "slice", "sleep", "observed"}}

FreshLoop == Min({i \in LoopIds : life.loops[i].pc = "none"})

LifeUnchanged ==
  UNCHANGED <<cfg, reg_threshold, power, unplugged_at, last_status,
              last_sample_time, sampler, state, running, esc, dialog,
              presented, os_shutdown, trig, lock, ui, noop, pres, bus,
              cm, probe>>

\* start: `if self._running: return`
StartCall(c) ==
  /\ life.callers[c].pc = "idle"
  /\ life.calls > 0
  /\ life' = [life EXCEPT !.calls = @ - 1,
                          !.callers[c].pc = IF mon_running THEN "idle" ELSE "s_set"]
  /\ UNCHANGED <<now, mon_running>>
  /\ LifeUnchanged

\* start: `self._running = True`
StartSet(c) ==
  /\ life.callers[c].pc = "s_set"
  /\ mon_running' = TRUE
  /\ life' = [life EXCEPT !.callers[c].pc = "s_thread", !.false_since = -1]
  /\ UNCHANGED now
  /\ LifeUnchanged

\* start: `self._thread = threading.Thread(target=self._monitor_loop)`
StartThread(c) ==
  /\ life.callers[c].pc = "s_thread"
  /\ life' = [life EXCEPT !.thread = FreshLoop,
                          !.loops[FreshLoop].pc = "created",
                          !.callers[c].pc = "s_start",
                          !.callers[c].target = FreshLoop]
  /\ UNCHANGED <<now, mon_running>>
  /\ LifeUnchanged

\* start: `self._thread.start()`, on the thread self._thread holds now; a
\* thread that was started already raises RuntimeError
StartStart(c) ==
  /\ life.callers[c].pc = "s_start"
  /\ LET i == life.thread
     IN life' = IF i # 0 /\ life.loops[i].pc = "created"
                THEN [life EXCEPT !.loops[i].pc = "while",
                                  !.callers[c] = NoCaller]
                ELSE [life EXCEPT !.raised = TRUE, !.callers[c] = NoCaller]
  /\ UNCHANGED <<now, mon_running>>
  /\ LifeUnchanged

\* stop: `self._running = False`
StopCall(c) ==
  /\ life.callers[c].pc = "idle"
  /\ life.calls > 0
  /\ mon_running' = FALSE
  /\ life' = [life EXCEPT !.calls = @ - 1,
                          !.callers[c].pc = "t_join",
                          !.false_since = IF mon_running \/ @ < 0 THEN now ELSE @]
  /\ UNCHANGED now
  /\ LifeUnchanged

\* stop: `if self._thread: self._thread.join(timeout=5)`; join raises
\* RuntimeError for a thread that has not been started
StopJoin(c) ==
  /\ life.callers[c].pc = "t_join"
  /\ LET i == life.thread
     IN life' = IF i = 0 THEN [life EXCEPT !.callers[c] = NoCaller]
                ELSE IF life.loops[i].pc = "created"
                THEN [life EXCEPT !.raised = TRUE, !.callers[c] = NoCaller]
                ELSE [life EXCEPT !.callers[c] =
                        [pc |-> "joining", target |-> i,
                         until |-> now + JoinTimeout]]
  /\ UNCHANGED <<now, mon_running>>
  /\ LifeUnchanged

JoinOver(c) ==
  \/ life.loops[life.callers[c].target].pc = "dead"
  \/ life.callers[c].until <= now

\* stop: join returns, `self._thread = None`
StopClear(c) ==
  /\ life.callers[c].pc = "joining"
  /\ JoinOver(c)
  /\ life' = [life EXCEPT !.thread = 0, !.callers[c] = NoCaller]
  /\ UNCHANGED <<now, mon_running>>
  /\ LifeUnchanged

\* _monitor_loop: `while self._running:` and, inside, the sample
LoopWhile(i) ==
  /\ life.loops[i].pc = "while"
  /\ life' = [life EXCEPT !.loops[i] =
       IF mon_running
       THEN [pc |-> "slice", left |-> sampler.check_interval * 2, wake |-> 0]
       ELSE [pc |-> "dead", left |-> 0, wake |-> 0]]
  /\ UNCHANGED <<now, mon_running>>
  /\ LifeUnchanged

\* faulty variant: the sleep is not cut short
SliceBreaks_Never(run) == FALSE

\* _monitor_loop: `if not self._running: break`
SliceBreaks(run) == ~run

\* _monitor_loop: one turn of `for _ in range(self.check_interval * 2)`
LoopSlice(i) ==
  /\ life.loops[i].pc = "slice"
  /\ life' = [life EXCEPT !.loops[i] =
       IF @.left = 0 THEN [@ EXCEPT !.pc = "while"]
       ELSE IF SliceBreaks(mon_running) THEN [@ EXCEPT !.pc = "observed"]
       ELSE [pc |-> "sleep", left |-> @.left - 1, wake |-> now + SliceSleep]]
  /\ UNCHANGED <<now, mon_running>>
  /\ LifeUnchanged

\* _monitor_loop: time.sleep(0.5) is over
LoopWake(i) ==
  /\ life.loops[i].pc = "sleep"
  /\ life.loops[i].wake <= now
  /\ life' = [life EXCEPT !.loops[i].pc = "slice"]
  /\ UNCHANGED <<now, mon_running>>
  /\ LifeUnchanged

\* _monitor_loop: after `break`, `while self._running:` once more
LoopObserved(i) ==
  /\ life.loops[i].pc = "observed"
  /\ life' = [life EXCEPT !.loops[i] =
       IF mon_running THEN [@ EXCEPT !.pc = "while"]
       ELSE [pc |-> "dead", left |-> 0, wake |-> 0]]
  /\ UNCHANGED <<now, mon_running>>
  /\ LifeUnchanged

LoopRunnable(i) ==
  \/ life.loops[i].pc \in {"while", "slice", "observed"}
  \/ life.loops[i].pc = "sleep" /\ life.loops[i].wake <= now

CallerRunnable(c) ==
  \/ life.callers[c].pc \in {"s_set", "s_thread", "s_start", "t_join"}
  \/ life.callers[c].pc = "joining" /\ JoinOver(c)

LifeRunnable ==
  \/ \E i \in LoopIds : LoopRunnable(i)
  \/ \E c \in CallerIds : CallerRunnable(c)

LifeWakeTimes ==
  {life.loops[i].wake : i \in {j \in LoopIds : life.loops[j].pc = "sleep"}}
  \cup {life.callers[c].until : c \in {d \in CallerIds : life.callers[d].pc = "joining"}}

\* The clock stops a second after a check interval and a join that began in
\* the first second have passed, unless a stop is under way.
LifeHorizon(c) == c.check_interval_seconds * 10 + TickSleep

\* Time passes to the next wake-up when no thread can run.
LifeTick ==
  /\ ~LifeRunnable
  /\ LifeWakeTimes # {}
  /\ Min(LifeWakeTimes) <= LifeHorizon(cfg) \/ ~mon_running
  /\ now' = Min(LifeWakeTimes)
  /\ UNCHANGED <<mon_running, life>>
  /\ LifeUnchanged

\* a second check interval
SlowConfig == [RaceConfig EXCEPT !.check_interval_seconds = 8]

LifeInit ==
  /\ InitCore({RaceConfig, SlowConfig}, NoUi)
  /\ power = [ok |-> TRUE, percent |-> cfg.battery_threshold - 1, is_plugged |-> TRUE]
  /\ life = StartedLife
  /\ cm = NoCm
  /\ probe = NoProbe

LoopStep(i) ==
  \/ LoopWhile(i)
  \/ LoopSlice(i)
  \/ LoopWake(i)
  \/ LoopObserved(i)

\* a caller goes on inside start or stop
CallerStep(c) ==
  \/ StartSet(c)
  \/ StartThread(c)
  \/ StartStart(c)
  \/ StopJoin(c)
  \/ StopClear(c)

LifeNext ==
  \/ \E c \in CallerIds :
       \/ StartCall(c)
       \/ StopCall(c)
       \/ CallerStep(c)
  \/ \E i \in LoopIds : LoopStep(i)
  \/ LifeTick

SpecLifecycle == LifeInit /\ [][LifeNext]_vars

\* the threads are scheduled and the clock runs
SpecLifecycleFair ==
  /\ SpecLifecycle
  /\ \A i \in LoopIds : WF_vars(LoopStep(i))
  /\ \A c \in CallerIds : WF_vars(CallerStep(c))
  /\ WF_vars(LifeTick)

\* ------------------------------------------------------- the ConfigManager
\* the changing calls of set, update, reload and reset_to_defaults made
MaxChanges == 2

\* the callables that are registered as change listeners
Listeners == {"first", "second"}

\* a listener that raises when it is called
ListenerRaises(listener) == listener = "first"

\* the values set and update are called with, in and out of the valid ranges
SetValues ==
  [battery_threshold |-> {49, 80, 151}, check_interval_seconds |-> {4},
   warning_interval_seconds |-> {20}, max_warnings |-> {51},
   max_time_minutes |-> {0}, shutdown_countdown_seconds |-> {301},
   enable_sounds |-> {0}]

\* the dicts update is called with
UpdateInputs ==
  {[battery_threshold |-> 101, max_warnings |-> 3],
   [check_interval_seconds |-> 0, warning_interval_seconds |-> 0,
    low_battery_alert |-> 1]}

\* the files found at get_config_path(): none, one that cannot be read, one
\* that holds a few keys, some of them out of range
FoundFiles ==
  {NoFile, UnreadableFile,
   [kind |-> "json",
    text |-> <<<<"battery_threshold", 30>>, <<"max_time_minutes", 90>>,
               <<"enable_sounds", 0>>>>]}

CmUnchanged ==
  UNCHANGED <<now, reg_threshold, power, unplugged_at, last_status,
              last_sample_time, mon_running, sampler, state, running, esc,
              dialog, presented, os_shutdown, trig, lock, ui, noop, pres,
              bus, life, probe>>

\* faulty variant: no try around the call, a listener that raises ends the loop
NotifyListeners_NoTry(listeners, old_config) ==
  LET stop == {i \in 1..Len(listeners) : ListenerRaises(listeners[i])}
      last == IF stop = {} THEN Len(listeners) ELSE Min(stop)
  IN [i \in 1..last |->
        [listener |-> listeners[i], snapshot |-> old_config,
         raised |-> ListenerRaises(listeners[i])]]

\* _notify_listeners: every listener is called with old_config, in the order
\* of the list; what a listener raises is logged
NotifyListeners(listeners, old_config) ==
  [i \in 1..Len(listeners) |->
     [listener |-> listeners[i], snapshot |-> old_config,
      raised |-> ListenerRaises(listeners[i])]]

\* the end of a changing call: the file, and the listeners when notify holds
Changed(op, old_config, file, saved, notify) ==
  [cm EXCEPT !.file = file, !.before = old_config, !.op = op,
             !.saved = saved, !.changes = @ + 1, !.changed_at = now,
             !.log = IF notify THEN NotifyListeners(cm.listeners, old_config)
                     ELSE <<>>]

\* set and update: the held dict gets the items, is validated and saved, and
\* the listeners are notified when it was saved
CmStore(op, updates, io) ==
  /\ cm.changes < MaxChanges
  /\ LET old_config == cfg
         new == ValidateConfig(Merge(cfg, updates))
     IN /\ cfg' = new
        /\ cm' = Changed(op, old_config, SaveConfig(cm.file, new, io),
                         SaveOk(io), SaveOk(io))
  /\ CmUnchanged

\* ConfigManager.set
CmSet(key, value, io) == CmStore("set", key :> value, io)

\* ConfigManager.update
CmUpdate(updates, io) == CmStore("update", updates, io)

\* ConfigManager.reload
CmReload(io) ==
  /\ cm.changes < MaxChanges
  /\ cfg' = ValidateConfig(LoadConfig(cm.file))
  /\ cm' = Changed("reload", cfg, FileAfterLoad(cm.file, io), FALSE, TRUE)
  /\ CmUnchanged

\* ConfigManager.reset_to_defaults
CmReset(io) ==
  /\ cm.changes < MaxChanges
  /\ cfg' = DefaultConfig
  /\ cm' = Changed("reset", cfg, SaveConfig(cm.file, DefaultConfig, io),
                   SaveOk(io), TRUE)
  /\ CmUnchanged

\* add_change_listener: a callable is held once
CmAddListener(listener) ==
  /\ cm.changes < MaxChanges
  /\ \A i \in 1..Len(cm.listeners) : cm.listeners[i] # listener
  /\ cm' = [cm EXCEPT !.listeners = Append(@, listener)]
  /\ UNCHANGED cfg
  /\ CmUnchanged

\* remove_change_listener
CmRemoveListener(listener) ==
  /\ cm.changes < MaxChanges
  /\ \E i \in 1..Len(cm.listeners) : cm.listeners[i] = listener
  /\ cm' = [cm EXCEPT !.listeners = SelectSeq(@, LAMBDA l : l # listener)]
  /\ UNCHANGED cfg
  /\ CmUnchanged

\* the file is replaced or deleted from outside the program
FileChange(file) ==
  /\ cm.changes < MaxChanges
  /\ cm.file # file
  /\ cm' = [cm EXCEPT !.file = file]
  /\ UNCHANGED cfg
  /\ CmUnchanged

\* ConfigManager.__new__: _config = validate_config(load_config())
ConfigInit ==
  /\ InitCore({ValidateConfig(LoadConfig(f)) : f \in FoundFiles}, NoUi)
  /\ power = [ok |-> TRUE, percent |-> cfg.battery_threshold - 1, is_plugged |-> TRUE]
  /\ \E f \in FoundFiles, io \in IoOutcomes :
       /\ cfg = ValidateConfig(LoadConfig(f))
       /\ cm = [NoCm EXCEPT !.file = FileAfterLoad(f, io), !.before = cfg]
  /\ life = NoLife
  /\ probe = NoProbe

ConfigNext ==
  \/ \E key \in DOMAIN SetValues, io \in IoOutcomes :
       \E value \in SetValues[key] : CmSet(key, value, io)
  \/ \E updates \in UpdateInputs, io \in IoOutcomes : CmUpdate(updates, io)
  \/ \E io \in IoOutcomes : CmReload(io)
  \/ \E io \in IoOutcomes : CmReset(io)
  \/ \E listener \in Listeners : CmAddListener(listener)
  \/ \E listener \in Listeners : CmRemoveListener(listener)
  \/ \E file \in FoundFiles : FileChange(file)

SpecConfig == ConfigInit /\ [][ConfigNext]_vars

\* ------------------------------------------------------ the settings dialog
\* handle_battery_status in the sampler thread, `elif self.state.is_active`:
\* _stop_alert_sequence, the block under the lock.  The branch is taken for
\* a sample at or above the threshold the subscriber was registered with and
\* below the threshold the configuration holds now.
SamplerStopLock ==
  /\ UNCHANGED ext
  /\ sampler.pc = "stop_lock"
  /\ IF ~state.is_active
     THEN /\ sampler' = BeginSleep(sampler, sampler.check_interval, mon_running)
          /\ UNCHANGED <<state, running, unplugged_at>>
     ELSE /\ sampler' = [sampler EXCEPT !.pc = "stop_close",
                                        !.was_shutdown = state.shutdown_initiated]
          /\ running' = FALSE
          /\ state' = AlertState
          /\ unplugged_at' = -1
  /\ esc' = [t \in Threads |->
               IF state.is_active /\ esc[t].pc \notin {"none", "done", "terminal"}
               THEN [esc[t] EXCEPT !.stopped = TRUE] ELSE esc[t]]
  /\ UNCHANGED <<mon_running, now, cfg, reg_threshold, power, last_status,
                 last_sample_time, dialog, presented, os_shutdown, trig>>

\* _stop_alert_sequence in the sampler thread: self.dialog.close_all()
SamplerStopClose ==
  /\ UNCHANGED ext
  /\ sampler.pc = "stop_close"
  /\ dialog' = CloseAll(dialog)
  /\ presented' = NoPresent
  /\ sampler' = [sampler EXCEPT !.pc = "stop_cancel"]
  /\ UNCHANGED <<mon_running, now, cfg, reg_threshold, power, unplugged_at,
                 last_status, last_sample_time, state, running, esc,
                 os_shutdown, trig>>

\* _stop_alert_sequence in the sampler thread:
\* `if was_shutdown: cancel_system_shutdown()`
SamplerStopCancel ==
  /\ UNCHANGED ext
  /\ sampler.pc = "stop_cancel"
  /\ os_shutdown' = IF sampler.was_shutdown THEN FALSE ELSE os_shutdown
  /\ sampler' = BeginSleep([sampler EXCEPT !.was_shutdown = FALSE],
                           sampler.check_interval, mon_running)
  /\ UNCHANGED <<mon_running, now, cfg, reg_threshold, power, unplugged_at,
                 last_status, last_sample_time, state, running, esc, dialog,
                 presented, trig>>

\* the times Save is pressed in the settings dialog
MaxSaves == 1

\* SettingsDialog._save: new_settings, the fields of the dialog with one
\* of them edited
SettingsInputs(c) ==
  LET shown == [k \in ValidatedKeys \cup {"enable_sounds"} |-> c[k]]
  IN {[shown EXCEPT !.battery_threshold = @ - 1],
      [shown EXCEPT !.battery_threshold = @ + 1],
      [shown EXCEPT !.check_interval_seconds = @ + 5],
      [shown EXCEPT !.warning_interval_seconds = @ + 10]}

\* SettingsDialog._save: self.config.update(new_settings).  No change
\* listener is registered anywhere in the program, so the subscriber's
\* threshold, the monitor's check interval and what a running escalation
\* thread has read stay as they are.  The program reads the configuration
\* only when it samples and when a sequence starts, so a save between two
\* samples is placed right after the earlier one.
SaveSettingsOf(inputs, outcomes) ==
  /\ cm.changes < MaxSaves
  /\ cm.listeners = <<>>
  /\ ~AnyRunnable
  /\ sampler.pc = "sleeping"
  /\ sampler.wake = now + sampler.check_interval * 2 * SliceSleep
  /\ \E new_settings \in inputs, io \in outcomes :
       CmUpdate(new_settings, io)

\* Save with any of the edits, written to the file or not
SaveSettings == SaveSettingsOf(SettingsInputs(cfg), IoOutcomes)

\* Save with the threshold raised by one
SaveRaisedThreshold ==
  SaveSettingsOf({new_settings \in SettingsInputs(cfg) :
                    new_settings.battery_threshold > cfg.battery_threshold},
                 {"ok"})

\* a short sequence and few samples
SettingsConfig == [RaceConfig EXCEPT !.check_interval_seconds = 30]

\* the file holds these values
SettingsFile == [kind |-> "json", text |-> JsonDump(SettingsConfig)]

\* BatteryTrayApp.__init__ with that file
SettingsInit ==
  /\ InitCore({ValidateConfig(LoadConfig(SettingsFile))}, NoUi)
  /\ life = NoLife
  /\ cm = [NoCm EXCEPT !.file = SettingsFile, !.before = cfg]
  /\ probe = NoProbe

SettingsNext ==
  \/ Next
  \/ SaveSettings
  \/ SamplerStopLock
  \/ SamplerStopClose
  \/ SamplerStopCancel

SpecSettings == SettingsInit /\ [][SettingsNext]_vars

\* the first warning is due in the tick that falls on the second sample
WarnAtSample ==
  [SettingsConfig EXCEPT !.warning_interval_seconds = 30]

\* no warning before max-time, which is reached in the tick that falls on
\* the third sample
LimitAtSample ==
  [SettingsConfig EXCEPT !.warning_interval_seconds = 90]

\* BatteryTrayApp.__init__ with a file that holds one of the two
CancelInit ==
  /\ \E c \in {WarnAtSample, LimitAtSample} :
       /\ InitCore({ValidateConfig(LoadConfig([kind |-> "json", text |-> JsonDump(c)]))},
                   NoUi)
       /\ cm = [NoCm EXCEPT !.file = [kind |-> "json", text |-> JsonDump(c)],
                            !.before = cfg]
  /\ life = NoLife
  /\ probe = NoProbe

CancelNext ==
  \/ Next
  \/ SaveRaisedThreshold
  \/ SamplerStopLock
  \/ SamplerStopClose
  \/ SamplerStopCancel

SpecCancel == CancelInit /\ [][CancelNext]_vars

\* ------------------------------------------- the sequence with a fair scheduler
\* The clock runs on past the horizon while a sequence is under way, so that
\* a sequence that began late is followed to its end.
TickOn ==
  /\ UNCHANGED ext
  /\ ~AnyRunnable
  /\ NonIdle
  /\ WakeTimes # {}
  /\ Min(WakeTimes) > Horizon(cfg)
  /\ now' = Min(WakeTimes)
  /\ UNCHANGED <<mon_running, cfg, reg_threshold, power, unplugged_at, last_status,
                 last_sample_time, sampler, state, running, esc, dialog,
                 presented, os_shutdown, trig>>

\* a step of the sampler thread
SamplerStep ==
  \/ SamplerPoll
  \/ SamplerNotify
  \/ SamplerStartLock
  \/ SamplerStartShow
  \/ SamplerStartThread
  \/ SamplerSlice

\* a step of an escalation thread
EscStep(t) ==
  \/ EscLoop(t)
  \/ EscElapsed(t)
  \/ EscUnplugCheck(t)
  \/ EscStopLock(t)
  \/ EscStopClose(t)
  \/ EscStopCancel(t)
  \/ EscShutdownCheck(t)
  \/ EscInitLock(t)
  \/ EscInitClose(t)
  \/ EscInitShow(t)
  \/ EscInitTrigger(t)
  \/ EscMonitor(t)
  \/ EscWarnCheck(t)
  \/ EscWarnInc(t)
  \/ EscWarnClose(t)
  \/ EscWarnShow(t)

EscalateNext ==
  \/ PowerChange
  \/ Tick
  \/ TickOn
  \/ SamplerStep
  \/ \E t \in Threads : EscStep(t)

\* a sequence that ends by max-warnings and max-time in one tick, and one
\* that ends by max-time with no warning counted
EscalateInit == InitWith({BothConfig, LimitAtSample}, NoUi)

SpecEscalate == EscalateInit /\ [][EscalateNext]_vars

\* the threads are scheduled and the clock runs
SpecEscalateFair ==
  /\ SpecEscalate
  /\ \A t \in Threads : WF_vars(EscStep(t))
  /\ WF_vars(SamplerStep)
  /\ WF_vars(Tick)
  /\ WF_vars(TickOn)

\* ------------------------------------- save_config, load_config, validate_config
\* how a validated key occurs in a configuration: not at all, or with a
\* value below, inside or above its range
Occurrences == {"absent", "below", "inside", "above"}

\* the values by key: below, inside and above the range; a key without an
\* upper limit has a large value as the third
ProbeValues ==
  [battery_threshold |-> <<49, 80, 151>>,
   check_interval_seconds |-> <<4, 10, 3600>>,
   warning_interval_seconds |-> <<9, 20, 3600>>,
   max_warnings |-> <<0, 3, 51>>,
   max_time_minutes |-> <<-1, 2, 61>>,
   shutdown_countdown_seconds |-> <<29, 45, 301>>]

\* the validated keys of a configuration in which key k occurs as occ[k]
ValidatedPart(occ) ==
  [k \in {j \in ValidatedKeys : occ[j] # "absent"} |->
     ProbeValues[k][IF occ[k] = "below" THEN 1
                    ELSE IF occ[k] = "inside" THEN 2 ELSE 3]]

\* the other keys of a configuration: none, one, or all of them
PlainParts ==
  {<<>>,
   [enable_sounds |-> 0],
   [auto_start_with_windows |-> 0, enable_sounds |-> 0,
    low_battery_alert |-> 1, low_battery_threshold |-> 15]}

\* the configurations the functions are applied to
ProbeInputs ==
  {Merge(ValidatedPart(occ), plain) :
     occ \in [ValidatedKeys -> Occurrences], plain \in PlainParts}

ProbeUnchanged ==
  UNCHANGED <<now, cfg, reg_threshold, power, unplugged_at, last_status,
              last_sample_time, mon_running, sampler, state, running, esc,
              dialog, presented, os_shutdown, trig, lock, ui, noop, pres,
              bus, life, cm>>

\* out = validate_config(input)
ProbeValidate ==
  /\ probe.pc = "input"
  /\ probe' = [probe EXCEPT !.pc = "validated", !.out = ValidateConfig(probe.input)]
  /\ ProbeUnchanged

\* again = validate_config(out)
ProbeAgain ==
  /\ probe.pc = "validated"
  /\ probe' = [probe EXCEPT !.pc = "again", !.again = ValidateConfig(probe.out)]
  /\ ProbeUnchanged

\* save_config(input), where a file exists or not
ProbeSave ==
  /\ probe.pc = "again"
  /\ \E file \in FoundFiles, io \in IoOutcomes :
       probe' = [probe EXCEPT !.pc = IF SaveOk(io) THEN "saved" ELSE "failed",
                              !.file = SaveConfig(file, probe.input, io)]
  /\ ProbeUnchanged

\* back = validate_config(load_config())
ProbeLoad ==
  /\ probe.pc \in {"saved", "failed"}
  /\ probe' = [probe EXCEPT !.pc = IF @ = "saved" THEN "loaded" ELSE "lost",
                            !.back = ValidateConfig(LoadConfig(probe.file))]
  /\ ProbeUnchanged

ProbeInit ==
  /\ InitCore({RefConfig}, NoUi)
  /\ power = [ok |-> TRUE, percent |-> cfg.battery_threshold - 1, is_plugged |-> TRUE]
  /\ life = NoLife
  /\ cm = NoCm
  /\ \E input \in ProbeInputs : probe = [NoProbe EXCEPT !.pc = "input", !.input = input]

ProbeNext ==
  \/ ProbeValidate
  \/ ProbeAgain
  \/ ProbeSave
  \/ ProbeLoad

SpecProbe == ProbeInit /\ [][ProbeNext]_vars

\* when the k-th warning of a sequence is counted, in tenths of a second
\* after the thread's start: one tick per second, and the 0.3 s pause of
\* every warning shown before
WarningTime(k, c) == k * c.warning_interval_seconds * 10 + CleanupPause * (k - 1)

\* the warnings counted e tenths of a second after the start
CountBy(e, c) ==
  Cardinality({k \in 1..c.max_warnings : WarningTime(k, c) <= e})

\* when the shutdown is scheduled in a sequence that the warning count ends:
\* the tick after the last warning was shown, and the pause of _initiate_shutdown
ScheduleTime(c) ==
  WarningTime(c.max_warnings, c) + CleanupPause + TickSleep + CleanupPause

\* C15: the controller's bookkeeping and its Shutdown Trigger call do not
\* depend on how the presenter's calls went: no presenter call ends a
\* controller thread, between two ticks the AlertState is the one the time
\* since the start gives (count, stage and elapsed seconds), and the shutdown
\* is scheduled once, with delay shutdown_countdown_seconds, at the time the
\* configuration gives.
C15_PresenterIndependent ==
  /\ sampler.pc # "crashed"
  /\ \A t \in Threads :
       LET e == now - esc[t].start_time
           c == esc[t].conf
       IN /\ esc[t].pc # "crashed"
          /\ (esc[t].pc = "loop" /\ state.is_active /\ ~state.shutdown_initiated)
               => /\ state.warning_count = CountBy(e, c)
                  /\ state.current_stage = StageFor(state.warning_count)
                  /\ state.elapsed_seconds
                       = (e - CleanupPause * state.warning_count) \div 10
          /\ esc[t].pc \in {"mon_sleep", "terminal"}
               => /\ trig = [entries |-> 1, schedules |-> 1,
                             delay |-> cfg.shutdown_countdown_seconds]
                  /\ state.shutdown_initiated /\ state.is_active
                  /\ state.warning_count = c.max_warnings
                  /\ esc[t].mon_start - esc[t].start_time = ScheduleTime(c)

\* every presenter call of a whole sequence has failed, and the countdown
\* has elapsed after the one schedule call
C15_Witness ==
  /\ pres.any_fail /\ ~pres.any_ok
  /\ Len(pres.wins) >= 3
  /\ pres.sd = "dead"
  /\ trig.schedules = 1
  /\ \E t \in Threads : esc[t].pc = "terminal"

\* the warning windows on the screen
OpenWindows == {w \in 1..Len(pres.wins) : pres.wins[w].open}

\* C16, as stated: the presenter never has two warning windows open, and an
\* open warning window is the one the dialog holds.
C16_OneTrackedWindow ==
  /\ Cardinality(OpenWindows) <= 1
  /\ \A w \in OpenWindows : pres.window = w

\* C17: when the initial toast has failed, the first window thread is the
\* fallback popup (dismissable, warning 1), it is not turned away at its
\* guard, and while it is in its mainloop and not closed its window is open.
C17_ToastFallsBack ==
  pres.initial = "fallback" =>
    /\ Len(pres.wins) >= 1
    /\ pres.wins[1].fallback /\ pres.wins[1].can_dismiss
    /\ pres.wins[1].count = 1
    /\ pres.wins[1].pc # "dropped"
    /\ (pres.wins[1].pc = "mainloop" /\ ~pres.wins[1].quit) => pres.wins[1].open

\* the initial toast failed and the fallback popup is on the screen
C17_Witness ==
  /\ pres.initial = "fallback"
  /\ Len(pres.wins) = 1
  /\ pres.wins[1].pc = "mainloop"
  /\ pres.wins[1].open
  /\ pres.window = 1

\* the threshold pairs that are due for the sample the sampler took last
DuePairs ==
  {j \in 1..Len(bus.threshold_callbacks) :
     /\ sampler.status.is_plugged
     /\ sampler.status.percent >= bus.threshold_callbacks[j][1]}

\* C18: after a successful sample the calls made are the every-sample
\* subscribers in registration order, then exactly the (threshold,
\* subscriber) pairs with is_plugged and percent >= threshold, in
\* registration order; after a failed query no call was made.
C18_NotifyOrder ==
  bus.polls > 0 =>
    LET n == Len(bus.callbacks)
        log == bus.log
    IN IF ~sampler.status.ok THEN log = <<>>
       ELSE /\ Len(log) = n + Cardinality(DuePairs)
            /\ \A i \in 1..n :
                 log[i].kind = "status" /\ log[i].sub = bus.callbacks[i]
            /\ \A k \in (n + 1)..Len(log) :
                 /\ log[k].kind = "threshold"
                 /\ log[k].pos \in DuePairs
                 /\ log[k].sub = bus.threshold_callbacks[log[k].pos][2]
                 /\ k < Len(log) => log[k].pos < log[k + 1].pos

\* a sample with two different every-sample subscribers and two threshold
\* pairs, of which the sample reaches the second only: three calls
C18_Witness ==
  /\ bus.polls > 0
  /\ sampler.status.ok
  /\ Len(bus.callbacks) = 2 /\ bus.callbacks[1] # bus.callbacks[2]
  /\ Len(bus.threshold_callbacks) = 2
  /\ DuePairs = {2}
  /\ Len(bus.log) = 3
  /\ bus.log[3].pos = 2

\* C19: when a subscriber has raised during a sample, every subscriber that
\* is due for the sample has been called all the same, and the sampler
\* sleeps its interval and goes on.
C19_RaiseIsolated ==
  (bus.polls > 0 /\ \E i \in 1..Len(bus.log) : bus.log[i].raised) =>
    /\ Len(bus.log) = Len(bus.callbacks) + Cardinality(DuePairs)
    /\ \A j \in DuePairs : \E k \in 1..Len(bus.log) :
         bus.log[k].kind = "threshold" /\ bus.log[k].pos = j
    /\ mon_running
    /\ \/ sampler.pc = "poll"
       \/ /\ sampler.pc = "sleeping"
          /\ sampler.wake = last_sample_time + cfg.check_interval_seconds * 10

\* the first every-sample subscriber raised, the three subscribers after it
\* were called, and the sampler has queried again after a sample with a raise
C19_Witness ==
  /\ Len(bus.log) = 4
  /\ bus.log[1].raised
  /\ bus.log[4].kind = "threshold"
  /\ bus.after_raise

\* C20: last_status is the status of the last query that succeeded; a failed
\* query changes nothing of it, calls no subscriber, and the sampler sleeps
\* its interval before the next query.
C20_FailedQuerySkipped ==
  /\ [](last_status = bus.last_good)
  /\ [][(sampler.pc = "poll" /\ ~power.ok /\ bus'.polls = bus.polls + 1)
          => /\ last_status' = last_status
             /\ bus'.log = <<>>
             /\ mon_running'
             /\ sampler'.pc = "sleeping"
             /\ sampler'.wake = now + cfg.check_interval_seconds * 10]_vars

\* a query has just failed after one that succeeded: the sampler sleeps, and
\* last_status is still the earlier status
C20_Witness ==
  /\ bus.skipped >= 1
  /\ ~sampler.status.ok
  /\ last_status.ok
  /\ sampler.pc = "sleeping"

\* C21, as stated: the value get_battery_status returns when no battery is
\* present is never a value it returns when the query has failed.
C21_OutcomesDistinct == bus.ret.no_battery \cap bus.ret.error = {}

\* C22, as stated: at most one _monitor_loop thread is running, whatever
\* start and stop calls were made from whatever threads.
C22_OneLoopThread == Cardinality(LiveLoops) <= 1

\* C23: once _running is False a _monitor_loop thread lives on for at most
\* one slice of 0.5 s, whatever the check interval; a thread that has seen
\* the flag down ends without another sample unless the monitor was started
\* again; and a stop that no start follows leads to the end of every thread.
C23_StopEndsLoop ==
  /\ [](\A i \in LiveLoops :
          /\ life.loops[i].pc = "sleep" => life.loops[i].wake <= now + SliceSleep
          /\ ~mon_running => now <= life.false_since + SliceSleep)
  /\ [][\A i \in LoopIds :
          (life.loops[i].pc = "observed" /\ ~mon_running)
            => life'.loops[i].pc \in {"observed", "dead"}]_vars
  /\ (LiveLoops # {} /\ ~mon_running) ~> (LiveLoops = {} \/ mon_running)

\* with the longer check interval, a stop came in the middle of the sleep
\* and the thread has ended before the next slice was over
C23_Witness ==
  /\ cfg.check_interval_seconds = 8
  /\ ~mon_running
  /\ life.false_since > 0
  /\ life.false_since < cfg.check_interval_seconds * 10 - SliceSleep
  /\ LiveLoops = {}
  /\ life.loops[1].pc = "dead"
  /\ now <= life.false_since + SliceSleep

\* the sampler has just finished with a sample taken after the last change
\* of the configuration, and the controller was IDLE when it was taken
IdleSampleAfterChange ==
  /\ cm.changes > 0
  /\ SampleHandled
  /\ last_sample_time > cm.changed_at
  /\ sampler.saw_idle

\* C24: once the configuration's threshold was changed, the threshold
\* subscriber is registered with the new threshold: a plugged sample at or
\* above the new threshold, taken while IDLE, starts a sequence, and a
\* plugged sample below it does not.
C24_ThresholdChangeApplies ==
  /\ cm.changes > 0 => reg_threshold = cfg.battery_threshold
  /\ (IdleSampleAfterChange /\ PluggedHigh(last_status)) => state.is_active
  /\ (IdleSampleAfterChange /\ PluggedLow(last_status)) => ~state.is_active

\* the limits an escalation thread works with are those of configuration c
SameLimits(conf, c) ==
  /\ conf.warning_interval_seconds = c.warning_interval_seconds
  /\ conf.max_warnings = c.max_warnings
  /\ conf.max_time_minutes = c.max_time_minutes
  /\ conf.shutdown_countdown_seconds = c.shutdown_countdown_seconds

\* the escalation threads that were running when the configuration changed
ChangedUnder ==
  {t \in Threads : /\ cm.changes > 0
                   /\ esc[t].pc \notin {"none", "done"}
                   /\ esc[t].start_time <= cm.changed_at}

\* C25: a change of the configuration during a sequence leaves
\* warning_count and elapsed_seconds as they are, and every tick of the
\* sequence that begins after the change works with the new warning
\* interval and limits, every sleep of the sampler that begins after it with
\* the new check interval.
C25_ChangeIsProspective ==
  /\ [][cfg' # cfg => /\ state'.warning_count = state.warning_count
                      /\ state'.elapsed_seconds = state.elapsed_seconds]_vars
  /\ [](\A t \in ChangedUnder :
          /\ (esc[t].pc = "sleep" /\ esc[t].wake - TickSleep > cm.changed_at)
               => SameLimits(esc[t].conf, cfg)
          /\ (sampler.pc = "sleeping"
                /\ sampler.wake - sampler.check_interval * 2 * SliceSleep > cm.changed_at)
               => sampler.check_interval = cfg.check_interval_seconds)

\* the ranges of the configuration schema
InRange(c) ==
  /\ c.battery_threshold >= 50 /\ c.battery_threshold <= 100
  /\ c.check_interval_seconds >= 5
  /\ c.warning_interval_seconds >= 10
  /\ c.max_warnings >= 1 /\ c.max_warnings <= 50
  /\ c.max_time_minutes >= 1 /\ c.max_time_minutes <= 60
  /\ c.shutdown_countdown_seconds >= 30 /\ c.shutdown_countdown_seconds <= 300

\* C26: after construction and after every set, update, reload and
\* reset_to_defaults called with integers, the configuration the manager
\* holds has each of the six validated keys inside its range.
C26_ConfigInRange == InRange(cfg)

\* a file with values out of range has been reloaded after a value out of
\* range was set
C26_Witness ==
  /\ cm.op = "reload" /\ cm.changes > 1
  /\ cfg.battery_threshold = 50 /\ cfg.max_time_minutes = 60
  /\ cm.before.max_warnings = 50

\* the changing call that was just made has notified the listeners
Notified == cm.op \in {"reload", "reset"} \/ cm.saved

\* C29: a change notification calls every registered listener, in the
\* order of registration, with a snapshot equal to the configuration held
\* right before the change, whatever the change made of the configuration
\* and whichever listeners raised.
C29_ListenersGetSnapshot ==
  [][(cm'.changes # cm.changes /\ Notified')
       => /\ Len(cm'.log) = Len(cm.listeners)
          /\ \A i \in 1..Len(cm.listeners) :
               /\ cm'.log[i].listener = cm.listeners[i]
               /\ cm'.log[i].snapshot = cfg]_vars

\* the first of two listeners raised, the second was called all the same,
\* with the threshold the change replaced
C29_Witness ==
  /\ Len(cm.log) = 2
  /\ cm.log[1].raised /\ ~cm.log[2].raised
  /\ cm.log[2].snapshot.battery_threshold # cfg.battery_threshold
  /\ cm.log[2].snapshot = cm.before

\* C27 as stated: a configuration that was saved and loaded validates to
\* what it validates to itself, whether or not it has all keys.
C27_RoundTrip == probe.pc = "loaded" => probe.back = probe.out

\* C27, amended: a configuration that was saved and loaded validates to
\* what the defaults with the configuration put over them validate to; that
\* agrees with the validated configuration on the six validated keys and
\* on every key the configuration has, and equals it when the configuration
\* has every key of the defaults that is not validated.
C27_RoundTripOverDefaults ==
  probe.pc = "loaded" =>
    /\ probe.back = ValidateConfig(Merge(DefaultConfig, probe.input))
    /\ \A k \in DOMAIN probe.out : probe.back[k] = probe.out[k]
    /\ PlainKeys \subseteq DOMAIN probe.input => probe.back = probe.out

\* a configuration without the threshold and without three of the other
\* keys, with a value above its range, has made the round trip
C27_Witness ==
  /\ probe.pc = "loaded"
  /\ "battery_threshold" \notin DOMAIN probe.input
  /\ DOMAIN probe.input \cap PlainKeys = {"enable_sounds"}
  /\ Get(probe.input, "max_warnings", 0) = 51
  /\ probe.back.max_warnings = 50
  /\ probe.back.low_battery_threshold = 20

\* C28: validate_config applied to what validate_config returned returns
\* the same configuration.
C28_ValidateIdempotent ==
  probe.pc \in {"again", "saved", "failed", "loaded", "lost"} => probe.again = probe.out

\* a configuration with values out of range and keys missing was validated
\* twice
C28_Witness ==
  /\ probe.pc = "again"
  /\ Get(probe.input, "battery_threshold", 0) = 151
  /\ "max_warnings" \notin DOMAIN probe.input
  /\ Get(probe.input, "shutdown_countdown_seconds", 0) = 29
  /\ probe.out.battery_threshold = 100
  /\ probe.again.shutdown_countdown_seconds = 30

\* thread t takes the step that leaves position pc
StepFrom(t, pc) == esc[t].pc = pc /\ esc'[t].pc # pc

\* C30: once force_stop has returned, a thread of the sequence it stopped
\* shows no warning, no shutdown warning, and does not schedule a shutdown.
C30_StoppedThreadSilent ==
  [][ui.pc \in {"monitor_stop", "gone"} =>
       \A t \in Threads :
         esc[t].stopped =>
           /\ ~StepFrom(t, "warn_pause")
           /\ ~StepFrom(t, "init_pause")
           /\ ~StepFrom(t, "init_trigger")]_vars

\* no thread is inside the controller: every escalation thread has
\* returned, and the sampler is outside handle_battery_status
NoTransition ==
  /\ \A t \in Threads : esc[t].pc \in {"none", "done", "terminal"}
  /\ sampler.pc \in {"poll", "sleeping", "exit"}

\* C31: when a sequence was cancelled and the controller is IDLE with no
\* transition in progress, no OS shutdown is scheduled, also when
\* _stop_alert_sequence ran in another thread while _initiate_shutdown was
\* between setting shutdown_initiated and trigger_system_shutdown.
C31_NoShutdownLeft ==
  (~state.is_active /\ NoTransition) => ~os_shutdown

\* C32: once _stop_alert_sequence, called from the sampler thread, has
\* reset the state, the escalation thread of the cancelled sequence does
\* not increment warning_count and does not present another warning, even
\* when it was past its unplug check in the current iteration.
C32_CancelledThreadSilent ==
  [][\A t \in Threads :
       esc[t].stopped =>
         /\ ~StepFrom(t, "warn_inc")
         /\ ~StepFrom(t, "warn_pause")]_vars


\* the Shutdown Trigger has been given the schedule command of the sequence
ShutdownIssued ==
  /\ state.shutdown_initiated
  /\ state.current_stage = "SHUTDOWN"
  /\ trig.schedules >= 1

\* a thread of the running sequence is past the shutdown check of its tick
PastShutdownCheck(t) ==
  /\ esc[t].pc \in {"warn_check", "warn_inc", "warn_close", "warn_pause",
                     "loop", "sleep"}
  /\ running

\* C33: a sequence whose samples all are plugged at or above the threshold,
\* with its thread scheduled, comes to SHUTDOWN_PENDING with the schedule
\* command issued; and no tick with elapsed_seconds >= max_time_minutes * 60
\* goes by without the shutdown being initiated in it.
C33_ShutdownComes ==
  /\ [](state.is_active => <>(ShutdownIssued \/ ~PluggedHigh(last_status)))
  /\ [](\A t \in Threads :
          (PastShutdownCheck(t) /\ state.is_active
             /\ state.elapsed_seconds >= esc[t].conf.max_time_minutes * 60)
          => state.shutdown_initiated)

\* the schedule command was issued in the tick in which max-time was
\* reached, with fewer warnings than max_warnings
C33_Witness ==
  /\ ShutdownIssued
  /\ os_shutdown
  /\ PluggedHigh(last_status)
  /\ \E t \in Threads :
       /\ esc[t].pc = "mon_sleep"
       /\ state.warning_count < esc[t].conf.max_warnings
       /\ state.elapsed_seconds = esc[t].conf.max_time_minutes * 60


ExpiryInvoked == ~pres.expiry_called /\ pres'.expiry_called

\* C35: the expiry callback is invoked only with the countdown at zero and
\* not cancelled; a cancelled countdown gets the cancel callback alone.
C35_ExpiryOnlyAtZero ==
  [][ExpiryInvoked => pres.shutdown_countdown = 0 /\ ~pres.cancelled]_vars


\* a call of set or update whose save_config returned false
StoreNotSaved ==
  /\ cm'.changes = cm.changes + 1
  /\ cm'.op \in {"set", "update"}
  /\ ~cm'.saved

\* C36: a set or update that could not be saved either leaves the held
\* configuration as it was or notifies the listeners.
C36_FailedSaveConsistent ==
  [][StoreNotSaved /\ cm.listeners # <<>> =>
       \/ cfg' = cfg
       \/ Len(cm'.log) = Len(cm.listeners)]_vars


\* C37: the sampler thread is never left waiting inside _notify_callbacks:
\* every subscriber's call returns, also one that calls add_status_callback,
\* add_threshold_callback or remove_callback, and the loop goes on.
C37_NotifyReturns == sampler.pc # "waiting"

\* the registrations without those of sub, in their order
Without(seq, sub) == SelectSeq(seq, LAMBDA cb : cb # sub)

WithoutPairs(seq, sub) == SelectSeq(seq, LAMBDA pair : pair[2] # sub)

\* C38: remove_callback(cb) leaves no registration of cb, in neither list,
\* and the registrations of the others as they were.
C38_RemovesEvery ==
  [][\A sub \in Subscribers :
       RemoveCallback(sub) =>
         /\ bus'.callbacks = Without(bus.callbacks, sub)
         /\ bus'.threshold_callbacks = WithoutPairs(bus.threshold_callbacks, sub)]_vars

====
